---- MODULE Spec2Model ----
(***************************************************************************)
(* Note content & link-graph engine of the roam note manager:              *)
(*   - LinkService.reconcileNoteLinks / analyzeNoteContent                 *)
(*     (src/src/services/link-service.ts)                                  *)
(*   - the zustand note store (src/src/stores/note-store.ts)               *)
(*   - NoteService over the storage service (src/src/utils/backup.ts,      *)
(*     src/unnamed/part_002)                                               *)
(*   - the App component's autosave of the selected note (src/src/App.tsx) *)
(***************************************************************************)
EXTENDS Integers, Sequences, FiniteSets, TLC

VARIABLES
    notes,           \* note-store state.notes (Note[])
    selectedNoteId,  \* note-store state.selectedNoteId
    db,              \* the notes table behind the storage service
    lastOp,          \* the last operation performed and its arguments
    lastResult,      \* the StorageResult code of the last NoteService call
    rcIn,            \* argument of LinkService.reconcileNoteLinks
    rcOut,           \* reconcileNoteLinks(rcIn)
    rcAgain,         \* reconcileNoteLinks(reconcileNoteLinks(rcIn))
    rcPc,            \* how many times reconcileNoteLinks has been applied
    saveStatus,      \* note-store state.saveStatus
    saveError,       \* note-store state.saveError
    unsavedChanges,  \* note-store state.unsavedChanges, in key order
    draftTitleRef,   \* App draftTitleRef.current
    draftContentRef, \* App draftContentRef.current
    autosaveTimerRef,    \* App autosaveTimerRef.current: the armed timer's closure
    previousNoteIdRef,   \* App previousNoteIdRef.current
    rendered,        \* what the callbacks of the last committed render closed over
    mounted,         \* whether the App component is mounted
    latestEdit,      \* per note, the last edit handed to scheduleAutosave
    timeouts         \* the window's pending setTimeout callbacks

vars == <<notes, selectedNoteId, db, lastOp, lastResult, rcIn, rcOut, rcAgain, rcPc,
          saveStatus, saveError, unsavedChanges, draftTitleRef, draftContentRef,
          autosaveTimerRef, previousNoteIdRef, rendered, mounted, latestEdit, timeouts>>

storeVars == <<notes, selectedNoteId>>
serviceVars == <<db, lastResult>>
rcVars == <<rcIn, rcOut, rcAgain, rcPc>>
appVars == <<saveStatus, saveError, unsavedChanges, draftTitleRef, draftContentRef,
             autosaveTimerRef, previousNoteIdRef, rendered, mounted, latestEdit,
             timeouts>>

(***************************************************************************)
(* Bounds of the model.                                                    *)
(***************************************************************************)
MaxNotes == 2        \* notes in a collection handed to reconcileNoteLinks
MaxTreeNotes == 3    \* notes in a collection of the tree specifications
MaxIndex == 3        \* largest targetIndex / targetOrder tried
MaxTime == 1         \* distinct values new Date() can return

(***************************************************************************)
(* JavaScript values.                                                      *)
(***************************************************************************)
Null == "<null>"
Undefined == "<undefined>"
NotAString == "<not-a-string>"
NoEntity == 0

NOTE_LINK_ENTITY_TYPE == "NOTE_LINK"
LINK_ENTITY_TYPE == "LINK"

IdPool == <<"a", "b", "c", "d", "e">>
IdRank(id) == CHOOSE i \in DOMAIN IdPool : IdPool[i] = id

SeqToSet(s) == {s[i] : i \in DOMAIN s}

\* A JavaScript array holds its elements: the sequence f with every element
\* computed.
ToArray(f) == f \o <<>>

Min(a, b) == IF a < b THEN a ELSE b
Max(a, b) == IF a > b THEN a ELSE b

\* Array.prototype.sort with a comparator a.k - b.k: stable, ascending.
SortByKey(s, Key(_)) ==
    ToArray([p \in 1..Len(s) |->
        s[CHOOSE i \in 1..Len(s) :
            p = 1 + Cardinality({j \in 1..Len(s) :
                        \/ Key(s[j]) < Key(s[i])
                        \/ (Key(s[j]) = Key(s[i]) /\ j < i)})]])

\* Insertion into a JavaScript Set: iteration order is first-insertion order.
SetAdd(s, x) == IF x \in SeqToSet(s) THEN s ELSE Append(s, x)

RECURSIVE SetAddAll(_, _)
SetAddAll(s, xs) ==
    IF xs = <<>> THEN s ELSE SetAddAll(SetAdd(s, Head(xs)), Tail(xs))

\* Array.prototype.join('\u0000')
JoinSeparator == "\\u0000"

RECURSIVE Join(_)
Join(arr) ==
    IF arr = <<>> THEN ""
    ELSE IF Len(arr) = 1 THEN arr[1]
    ELSE arr[1] \o JoinSeparator \o Join(Tail(arr))

\* String.prototype.trim().length > 0
IsWhitespaceOnly(str) == \A i \in 1..Len(str) : SubSeq(str, i, i) = " "

(***************************************************************************)
(* Titles and their collation.  localeCompare(..., {sensitivity: 'base'})  *)
(* compares case-insensitively: "Foo" and "foo" are equal.                 *)
(***************************************************************************)
CollationClasses ==
    <<{""}, {"Bar", "bar"}, {"Foo", "foo"}, {"Renamed"}, {"Untitled"}, {"Untitled Note"}>>

CollationRank(title) == CHOOSE i \in DOMAIN CollationClasses : title \in CollationClasses[i]

(***************************************************************************)
(* Serialized note content.  A content string is either a string that is   *)
(* no serialized document, or the JSON text of a RawDraftContentState:     *)
(* blocks (text, entityRanges) and an entityMap.  `canon` tells whether    *)
(* the text is laid out as JSON.stringify(convertToRaw(..)) lays it out    *)
(* (key order, spacing, defaulted fields).                                 *)
(***************************************************************************)
EmptyString == [kind |-> "string", str |-> ""]

NotJsonStrings == {"# Title", "plain words"}
JsonNonObjectStrings == {"42", "null"}
JsonObjectNoBlocksStrings == {"{}"}

StringContent(str) == [kind |-> "string", str |-> str]

RawDoc(blocks, entityMap, canon) ==
    [kind |-> "doc", blocks |-> blocks, entityMap |-> entityMap, canon |-> canon]

NoteLinkEntity(noteId, title) ==
    [type |-> NOTE_LINK_ENTITY_TYPE, noteId |-> noteId, title |-> title]

UrlLinkEntity ==
    [type |-> LINK_ENTITY_TYPE, noteId |-> NotAString, title |-> NotAString]

\* parseRawContent: null for '', for text JSON.parse rejects, and for JSON
\* values that are not objects; otherwise the parsed value.
ParsedNull == [kind |-> "null"]

parseRawContent(raw) ==
    IF raw.kind = "string"
    THEN IF raw.str = "" THEN ParsedNull
         ELSE IF raw.str \in NotJsonStrings THEN ParsedNull
         ELSE IF raw.str \in JsonNonObjectStrings THEN ParsedNull
         ELSE raw
    ELSE raw

\* convertFromRaw throws on an object without a blocks array.
convertFromRawThrows(parsed) == parsed.kind # "doc"

sanitizeLinkId(value) ==
    IF value # NotAString /\ ~IsWhitespaceOnly(value) THEN value ELSE Null

(***************************************************************************)
(* draft-js ContentState: per block the text and, per character, the key   *)
(* of the entity attached to it (NoEntity for none); entities by key.      *)
(***************************************************************************)
\* decodeEntityRanges: ranges naming a key of the entityMap mark their
\* characters, a later range overwriting an earlier one.
DecodeEntityRanges(text, ranges, entityMap) ==
    LET n == Len(text)
        RECURSIVE Apply(_, _)
        Apply(ents, i) ==
            IF i > Len(ranges) THEN ents
            ELSE LET r == ranges[i]
                 IN  IF (r.key + 1) \in DOMAIN entityMap
                     THEN Apply(ToArray([p \in 1..n |->
                                   IF p > r.offset /\ p <= r.offset + r.length
                                   THEN r.key + 1 ELSE ents[p]]), i + 1)
                     ELSE Apply(ents, i + 1)
    IN  Apply(ToArray([p \in 1..n |-> NoEntity]), 1)

convertFromRaw(raw) ==
    [blocks |-> ToArray([b \in DOMAIN raw.blocks |->
                    [text |-> raw.blocks[b].text,
                     ents |-> DecodeEntityRanges(raw.blocks[b].text,
                                                 raw.blocks[b].entityRanges,
                                                 raw.entityMap)]]),
     entities |-> raw.entityMap]

\* ContentBlock.findEntityRanges: maximal runs of characters carrying the
\* same entity, in ascending order; start inclusive, end exclusive, 0-based.
EntityRuns(ents) ==
    LET n == Len(ents)
        starts == {i \in 1..n : ents[i] # NoEntity /\ (i = 1 \/ ents[i - 1] # ents[i])}
        EndOf(i) == CHOOSE j \in i..n :
                        /\ \A k \in i..j : ents[k] = ents[i]
                        /\ (j = n \/ ents[j + 1] # ents[i])
        RECURSIVE Collect(_, _)
        Collect(from, acc) ==
            IF \A i \in starts : i < from THEN acc
            ELSE LET i == CHOOSE s \in starts : s >= from /\ \A t \in starts : t >= from => s <= t
                 IN  Collect(EndOf(i) + 1,
                             Append(acc, [start |-> i - 1, end |-> EndOf(i), entityKey |-> ents[i]]))
    IN  Collect(1, <<>>)

findLinkEntityRanges(contentState, blockKey) ==
    LET IsNoteLink(range) ==
            contentState.entities[range.entityKey].type = NOTE_LINK_ENTITY_TYPE
    IN  SelectSeq(EntityRuns(contentState.blocks[blockKey].ents), IsNoteLink)

\* replaceTextForRange with a collapsed selection: the text is inserted at
\* start and the old range is left in place.
replaceTextForRange_Insert(contentState, blockKey, start, end, entityKey, text) ==
    LET blk == contentState.blocks[blockKey]
        n == Len(blk.text)
        newText == SubSeq(blk.text, 1, start) \o text \o SubSeq(blk.text, start + 1, n)
        newEnts == SubSeq(blk.ents, 1, start)
                   \o [i \in 1..Len(text) |-> entityKey]
                   \o SubSeq(blk.ents, start + 1, n)
    IN  [contentState EXCEPT !.blocks[blockKey] = [text |-> newText, ents |-> newEnts]]

\* Modifier.replaceText over [start, end): the inserted characters carry
\* entityKey (none when it is null).
replaceTextForRange(contentState, blockKey, start, end, entityKey, text) ==
    LET blk == contentState.blocks[blockKey]
        n == Len(blk.text)
        newText == SubSeq(blk.text, 1, start) \o text \o SubSeq(blk.text, end + 1, n)
        newEnts == SubSeq(blk.ents, 1, start)
                   \o [i \in 1..Len(text) |-> entityKey]
                   \o SubSeq(blk.ents, end + 1, n)
    IN  [contentState EXCEPT !.blocks[blockKey] = [text |-> newText, ents |-> newEnts]]

mergeEntityData(contentState, entityKey, noteId, title) ==
    [contentState EXCEPT !.entities[entityKey].noteId = noteId,
                         !.entities[entityKey].title = title]

\* The entity keys of a content state in order of first use: draft-js's
\* DraftStringKey storage map built by encodeEntityRanges.
RunKeys(runs) == ToArray([r \in DOMAIN runs |-> runs[r].entityKey])

RECURSIVE UsedEntityKeys(_, _, _)
UsedEntityKeys(blocks, b, acc) ==
    IF b > Len(blocks) THEN acc
    ELSE UsedEntityKeys(blocks, b + 1, SetAddAll(acc, RunKeys(EntityRuns(blocks[b].ents))))

\* One block's entityRanges, keys renumbered by position in storage.
EncodeEntityRanges(runs, storage) ==
    ToArray([r \in DOMAIN runs |->
        [offset |-> runs[r].start,
         length |-> runs[r].end - runs[r].start,
         key |-> (CHOOSE i \in DOMAIN storage : storage[i] = runs[r].entityKey) - 1]])

EncodeRaw(contentState, storage) ==
    [blocks |-> ToArray([b \in DOMAIN contentState.blocks |->
                    [text |-> contentState.blocks[b].text,
                     entityRanges |-> EncodeEntityRanges(EntityRuns(contentState.blocks[b].ents),
                                                         storage)]]),
     entityMap |-> ToArray([i \in DOMAIN storage |-> contentState.entities[storage[i]]])]

\* convertToRaw: entities are renumbered 0, 1, .. in order of first use and
\* only the entities some character carries are written.
convertToRaw(contentState) ==
    EncodeRaw(contentState, UsedEntityKeys(contentState.blocks, 1, <<>>))

\* JSON.stringify(convertToRaw(contentState))
Stringify(raw) == RawDoc(raw.blocks, raw.entityMap, TRUE)

Serialize(contentState) == Stringify(convertToRaw(contentState))

(***************************************************************************)
(* Notes.                                                                  *)
(***************************************************************************)
Note(id, title, content, parentId, order, outbound, inbound, updatedAt) ==
    [id |-> id, title |-> title, content |-> content, parentId |-> parentId,
     order |-> order, links |-> [outbound |-> outbound, inbound |-> inbound],
     createdAt |-> updatedAt, updatedAt |-> updatedAt, embeds |-> <<>>]

NoteIds(coll) == {coll[i].id : i \in DOMAIN coll}

\* Array.prototype.find(note => note.id === id): the first match.
FindIndex(coll, id) ==
    IF id \in NoteIds(coll)
    THEN CHOOSE i \in DOMAIN coll : coll[i].id = id /\ \A j \in 1..(i - 1) : coll[j].id # id
    ELSE 0

FindNote(coll, id) == coll[FindIndex(coll, id)]

\* The ids of a collection in order of first occurrence (Map key order).
KeyOrder(coll) ==
    SelectSeq([i \in DOMAIN coll |-> IF FindIndex(coll, coll[i].id) = i THEN coll[i].id ELSE Null],
              LAMBDA id : id # Null)

\* Map.set in a loop over the notes: the last note with an id wins.
LastIndex(coll, id) ==
    CHOOSE i \in DOMAIN coll : coll[i].id = id /\ \A j \in (i + 1)..Len(coll) : coll[j].id # id

BuildTitleMap(coll) == [id \in NoteIds(coll) |-> coll[LastIndex(coll, id)].title]

(***************************************************************************)
(* LinkService                                                             *)
(***************************************************************************)
ensureUniqueSorted(values, titleMap) ==
    LET Has(value) == value \in DOMAIN titleMap
        unique == SetAddAll(<<>>, SelectSeq(values, Has))
        TitleKey(id) == CollationRank(titleMap[id])
    IN  SortByKey(unique, TitleKey)

\* `[[${resolvedTitle}]]`
DisplayText(resolvedTitle) == "[[" \o resolvedTitle \o "]]"
\* The rewrite that leaves the entity on a range whose target is gone.
RewriteRange_KeepEntity(acc, blockKey, range, noteId, hasTarget, resolvedTitle) ==
    [outbound |-> IF hasTarget THEN SetAdd(acc.outbound, noteId) ELSE acc.outbound,
     contentState |->
         replaceTextForRange(
             IF hasTarget
             THEN mergeEntityData(acc.contentState, range.entityKey, noteId, resolvedTitle)
             ELSE acc.contentState,
             blockKey, range.start, range.end, range.entityKey,
             DisplayText(resolvedTitle))]

\* The rewrite of one range once its target is resolved: the entity data
\* merged for a live target, the text replaced, the entity dropped for a
\* broken one.
RewriteRange(acc, blockKey, range, noteId, hasTarget, resolvedTitle) ==
    [outbound |-> IF hasTarget THEN SetAdd(acc.outbound, noteId) ELSE acc.outbound,
     contentState |->
         replaceTextForRange(
             IF hasTarget
             THEN mergeEntityData(acc.contentState, range.entityKey, noteId, resolvedTitle)
             ELSE acc.contentState,
             blockKey, range.start, range.end,
             IF hasTarget THEN range.entityKey ELSE NoEntity,
             DisplayText(resolvedTitle))]
\* The resolution with the title stored in the entity taken first.
ResolveRange_StoredFirst(acc, blockKey, range, titleMap, noteId, storedTitle) ==
    RewriteRange(acc, blockKey, range, noteId,
                 noteId # Null /\ noteId \in DOMAIN titleMap,
                 IF storedTitle # NotAString THEN storedTitle
                 ELSE IF noteId # Null /\ noteId \in DOMAIN titleMap THEN titleMap[noteId]
                 ELSE "Untitled")

\* The resolution of one range's title: the target's current title, else
\* the title stored in the entity, else 'Untitled'.
ResolveRange(acc, blockKey, range, titleMap, noteId, storedTitle) ==
    RewriteRange(acc, blockKey, range, noteId,
                 noteId # Null /\ noteId \in DOMAIN titleMap,
                 IF noteId # Null /\ noteId \in DOMAIN titleMap THEN titleMap[noteId]
                 ELSE IF storedTitle # NotAString THEN storedTitle
                 ELSE "Untitled")

\* One iteration of the loop over a block's ranges in analyzeNoteContent.
AnalyzeRange(acc, blockKey, range, titleMap) ==
    ResolveRange(acc, blockKey, range, titleMap,
                 sanitizeLinkId(acc.contentState.entities[range.entityKey].noteId),
                 acc.contentState.entities[range.entityKey].title)

\* The loop over a block's ranges.
RECURSIVE AnalyzeRanges(_, _, _, _, _)
AnalyzeRanges(acc, blockKey, ranges, i, titleMap) ==
    IF i > Len(ranges) THEN acc
    ELSE AnalyzeRanges(AnalyzeRange(acc, blockKey, ranges[i], titleMap),
                       blockKey, ranges, i + 1, titleMap)

\* ranges.sort((a, b) => b.start - a.start)
DescendingStart(range) == 0 - range.start

\* The loop over the blocks, each block's ranges taken in descending start.
RECURSIVE AnalyzeBlocks(_, _, _)
AnalyzeBlocks(acc, blockKey, titleMap) ==
    IF blockKey > Len(acc.contentState.blocks) THEN acc
    ELSE AnalyzeBlocks(
             AnalyzeRanges(acc, blockKey,
                           SortByKey(findLinkEntityRanges(acc.contentState, blockKey),
                                     DescendingStart),
                           1, titleMap),
             blockKey + 1, titleMap)

\* The result of analyzeNoteContent for content that parsed.
AnalysisOf(done) == [outbound |-> done.outbound, content |-> Serialize(done.contentState)]

\* An analysis that blanks the content it cannot parse.
analyzeNoteContent_Blanking(note, titleMap) ==
    IF parseRawContent(note.content) = ParsedNull
    THEN [outbound |-> <<>>, content |-> EmptyString]
    ELSE IF convertFromRawThrows(parseRawContent(note.content))
    THEN [outbound |-> <<>>, content |-> EmptyString]
    ELSE AnalysisOf(AnalyzeBlocks([outbound |-> <<>>,
                                   contentState |-> convertFromRaw(parseRawContent(note.content))],
                                  1, titleMap))

analyzeNoteContent(note, titleMap) ==
    IF parseRawContent(note.content) = ParsedNull
    THEN [outbound |-> <<>>, content |-> note.content]
    ELSE IF convertFromRawThrows(parseRawContent(note.content))
    THEN [outbound |-> <<>>, content |-> note.content]
    ELSE AnalysisOf(AnalyzeBlocks([outbound |-> <<>>,
                                   contentState |-> convertFromRaw(parseRawContent(note.content))],
                                  1, titleMap))

\* The inversion loop without the inversion: a note's inbound filled from
\* its own outbound set.
InboundOf_NotInverted(targetId, keyOrder, outboundMap) ==
    SelectSeq(keyOrder, LAMBDA sourceId :
        sourceId # targetId /\ sourceId \in SeqToSet(outboundMap[targetId]))

\* The inversion loop without the targetId === sourceId test.
InboundOf_NoSelfCheck(targetId, keyOrder, outboundMap) ==
    SelectSeq(keyOrder, LAMBDA sourceId : targetId \in SeqToSet(outboundMap[sourceId]))

\* The inversion loop of reconcileNoteLinks: the sources of targetId, in
\* the iteration order of outboundMap.
InboundOf(targetId, keyOrder, outboundMap) ==
    SelectSeq(keyOrder, LAMBDA sourceId :
        sourceId # targetId /\ targetId \in SeqToSet(outboundMap[sourceId]))

\* A reconcile that stamps the notes it changes.
ReconciledNote_Stamped(note, outbound, inbound, updatedContent) ==
    IF /\ Join(outbound) = Join(note.links.outbound)
       /\ Join(inbound) = Join(note.links.inbound)
       /\ updatedContent = note.content
    THEN note
    ELSE [note EXCEPT !.content = updatedContent,
                      !.links = [outbound |-> outbound, inbound |-> inbound],
                      !.updatedAt = @ + 1]

\* The note returned for one input note, given the arrays computed for it.
ReconciledNote(note, outbound, inbound, updatedContent) ==
    IF /\ Join(outbound) = Join(note.links.outbound)
       /\ Join(inbound) = Join(note.links.inbound)
       /\ updatedContent = note.content
    THEN note
    ELSE [note EXCEPT !.content = updatedContent,
                      !.links = [outbound |-> outbound, inbound |-> inbound]]

\* notes.map(...) of reconcileNoteLinks, given titleMap, the key order of
\* outboundMap, and outboundMap and contentMap themselves.
ReconcileWith(coll, titleMap, keyOrder, outboundMap, contentMap) ==
    ToArray([i \in DOMAIN coll |->
        ReconciledNote(coll[i],
            ensureUniqueSorted(outboundMap[coll[i].id], titleMap),
            ensureUniqueSorted(InboundOf(coll[i].id, keyOrder, outboundMap), titleMap),
            contentMap[coll[i].id])])

\* The first loop of reconcileNoteLinks: outboundMap and contentMap filled
\* from the analysis of every note, the last note of an id winning.
ReconcileAnalyzed(coll, titleMap, analysis) ==
    ReconcileWith(coll, titleMap, KeyOrder(coll),
                  [id \in NoteIds(coll) |-> analysis[LastIndex(coll, id)].outbound],
                  [id \in NoteIds(coll) |-> analysis[LastIndex(coll, id)].content])

ReconcileTitled(coll, titleMap) ==
    ReconcileAnalyzed(coll, titleMap,
                      ToArray([i \in DOMAIN coll |-> analyzeNoteContent(coll[i], titleMap)]))

reconcileNoteLinks(coll) ==
    IF Len(coll) = 0 THEN coll ELSE ReconcileTitled(coll, BuildTitleMap(coll))

(***************************************************************************)
(* Observers used by the properties.                                       *)
(***************************************************************************)
\* The NOTE_LINK ranges of a content string, per block: start, end, the
\* raw noteId and title of the entity, and the text the range covers.
LinkRangesOf(content) ==
    LET raw == parseRawContent(content)
    IN  IF raw = ParsedNull \/ convertFromRawThrows(raw) THEN <<>>
        ELSE LET contentState == convertFromRaw(raw)
                 RangesIn(b) == findLinkEntityRanges(contentState, b)
             IN  [b \in DOMAIN contentState.blocks |->
                    [r \in DOMAIN RangesIn(b) |->
                        [start |-> RangesIn(b)[r].start,
                         end |-> RangesIn(b)[r].end,
                         noteId |-> contentState.entities[RangesIn(b)[r].entityKey].noteId,
                         title |-> contentState.entities[RangesIn(b)[r].entityKey].title,
                         text |-> SubSeq(contentState.blocks[b].text,
                                         RangesIn(b)[r].start + 1, RangesIn(b)[r].end)]]]

\* The note ids the NOTE_LINK ranges of a content string point at.
LinkTargetsOf(content) ==
    LET ranges == LinkRangesOf(content)
    IN  UNION {{ranges[b][r].noteId : r \in DOMAIN ranges[b]} : b \in DOMAIN ranges}

\* The text of each block of a content string (<<>> for no document).
BlockTextsOf(content) ==
    LET raw == parseRawContent(content)
    IN  IF raw = ParsedNull \/ convertFromRawThrows(raw) THEN <<>>
        ELSE [b \in DOMAIN raw.blocks |-> raw.blocks[b].text]

Outbound(note) == SeqToSet(note.links.outbound)
Inbound(note) == SeqToSet(note.links.inbound)

(***************************************************************************)
(* The collections handed to reconcileNoteLinks: live links, broken links, *)
(* self links, unparsable content, documents that are not laid out as      *)
(* convertToRaw lays them out, and stale stored link arrays.               *)
(***************************************************************************)
LinkIds == {IdPool[i] : i \in 1..MaxNotes}
DeletedId == "z"
LinkTitles == {"Foo", "Bar"}

Block(text, entityRanges) == [text |-> text, entityRanges |-> entityRanges]
Range(offset, length, key) == [offset |-> offset, length |-> length, key |-> key]

PlainDoc(canon) == RawDoc(<<Block("hi", <<>>)>>, <<>>, canon)

OneLinkDoc(target, storedTitle) ==
    RawDoc(<<Block("see [[Foo]]!", <<Range(4, 7, 0)>>)>>,
           <<NoteLinkEntity(target, storedTitle)>>, TRUE)

TwoLinkDoc(first, second) ==
    RawDoc(<<Block("[[Foo]] and [[Bar]]", <<Range(0, 7, 0), Range(12, 7, 1)>>)>>,
           <<NoteLinkEntity(first, "Foo"), NoteLinkEntity(second, "Bar")>>, TRUE)

\* Two adjacent ranges of one entity in the first block, a link in a
\* second block.
SharedKeyDoc(target) ==
    RawDoc(<<Block("[[Foo]][[Foo]]", <<Range(0, 7, 0), Range(7, 7, 0)>>),
             Block("[[Foo]]", <<Range(0, 7, 0)>>)>>,
           <<NoteLinkEntity(target, "Foo")>>, TRUE)

\* A URL link, an entity no range uses, a range of a missing key, a range
\* that runs past the text and a NOTE_LINK whose noteId is blank.
MixedDoc(target) ==
    RawDoc(<<Block("url [[Foo]] [[Bar]]",
                   <<Range(0, 3, 1), Range(4, 7, 2), Range(12, 9, 3), Range(1, 1, 7)>>)>>,
           <<NoteLinkEntity(target, "Foo"), UrlLinkEntity,
             NoteLinkEntity(" ", NotAString), NoteLinkEntity(target, "Bar")>>, FALSE)

ContentsOver(ids) ==
    {StringContent(str) : str \in {"", "plain words", "42", "{}"}}
    \cup {PlainDoc(canon) : canon \in BOOLEAN}
    \cup {OneLinkDoc(t, st) : t \in ids \cup {DeletedId}, st \in {"Foo", NotAString}}
    \cup {TwoLinkDoc(t[1], t[2]) : t \in {t \in ids \X (ids \cup {DeletedId}) : t[1] # t[2]}}
    \cup {SharedKeyDoc(t) : t \in ids}
    \cup {MixedDoc(IdPool[1])}

\* Stored link arrays: <<outbound, inbound>>.
StoredLinksOf(id) ==
    {<<<<>>, <<>>>>, <<<<"">>, <<>>>>, <<<<DeletedId>>, <<DeletedId, id>>>>}

ReconcileInputsOfLen(n) ==
    LET ids == {IdPool[i] : i \in 1..n}
        Choices(i) == {Note(IdPool[i], title, content, Undefined, i - 1, stored[1], stored[2], 0) :
                          title \in LinkTitles, content \in ContentsOver(ids),
                          stored \in StoredLinksOf(IdPool[i])}
    IN  {coll \in [1..n -> UNION {Choices(i) : i \in 1..n}] :
            \A i \in 1..n : coll[i].id = IdPool[i]}

ReconcileInputs == UNION {ReconcileInputsOfLen(n) : n \in 0..MaxNotes}

(***************************************************************************)
(* SpecReconcile: reconcileNoteLinks as a function of its argument.        *)
(***************************************************************************)
Idle == [op |-> "none"]

\* lastResult after a call that returns nothing.
Void == "none"

\* The autosave state before the App has rendered: the store's initial
\* state (note-store.ts 61-64) and the initial refs (App.tsx 62-65).
NotRendered == [noteId |-> Undefined, keys |-> <<>>, stale |-> FALSE]

InitApp ==
    /\ saveStatus = "idle"
    /\ saveError = Null
    /\ unsavedChanges = <<>>
    /\ draftTitleRef = ""
    /\ draftContentRef = EmptyString
    /\ autosaveTimerRef = [noteId |-> Null]
    /\ previousNoteIdRef = Null
    /\ rendered = NotRendered
    /\ mounted = FALSE
    /\ latestEdit = <<>>
    /\ timeouts = {}

InitReconcile ==
    /\ rcIn \in ReconcileInputs
    /\ rcOut = <<>>
    /\ rcAgain = <<>>
    /\ rcPc = 0
    /\ InitApp
    /\ notes = <<>>
    /\ selectedNoteId = Null
    /\ db = {}
    /\ lastOp = Idle
    /\ lastResult = Void

ReconcileOnce ==
    /\ rcPc = 0
    /\ rcOut' = reconcileNoteLinks(rcIn)
    /\ rcPc' = 1
    /\ UNCHANGED <<rcIn, rcAgain, storeVars, serviceVars, lastOp, appVars>>

ReconcileTwice ==
    /\ rcPc = 1
    /\ rcAgain' = reconcileNoteLinks(rcOut)
    /\ rcPc' = 2
    /\ UNCHANGED <<rcIn, rcOut, storeVars, serviceVars, lastOp, appVars>>

NextReconcile == ReconcileOnce \/ ReconcileTwice

SpecReconcile == InitReconcile /\ [][NextReconcile]_vars

(***************************************************************************)
(* Properties of reconcileNoteLinks (SpecReconcile).                       *)
(***************************************************************************)
\* C3: in the output of reconcileNoteLinks, for all distinct notes a and b,
\* b.id is in a.links.outbound if and only if a.id is in b.links.inbound.
C3_Symmetry ==
    rcPc >= 1 =>
        \A i \in DOMAIN rcOut : \A j \in DOMAIN rcOut :
            i # j => (rcOut[j].id \in Outbound(rcOut[i]) <=> rcOut[i].id \in Inbound(rcOut[j]))

\* A note links to another one, whose stored inbound array did not say so.
C3_Witness ==
    /\ rcPc >= 1
    /\ \E i \in DOMAIN rcOut : \E j \in DOMAIN rcOut :
          /\ i # j
          /\ rcOut[j].id \in Outbound(rcOut[i])
          /\ rcOut[i].id \in Inbound(rcOut[j])
          /\ rcOut[i].id \notin Inbound(rcIn[j])
          /\ rcOut[i].id \notin Outbound(rcOut[j])

\* C4: after reconcileNoteLinks, a note whose content holds a NOTE_LINK
\* entity pointing at its own id does not have its own id in links.outbound.
C4_NoSelfOutbound ==
    rcPc >= 1 =>
        \A i \in DOMAIN rcOut :
            rcIn[i].id \in LinkTargetsOf(rcIn[i].content) => rcOut[i].id \notin Outbound(rcOut[i])

\* C5: after reconcileNoteLinks, no note's id appears in its own
\* links.inbound, whatever links its content contains.
C5_NoSelfInbound ==
    rcPc >= 1 => \A i \in DOMAIN rcOut : rcOut[i].id \notin Inbound(rcOut[i])

\* A note that links to itself and whose stored inbound array named itself.
C5_Witness ==
    /\ rcPc >= 1
    /\ \E i \in DOMAIN rcOut :
          /\ rcIn[i].id \in LinkTargetsOf(rcIn[i].content)
          /\ rcIn[i].id \in Inbound(rcIn[i])
          /\ rcOut[i].id \in Outbound(rcOut[i])
          /\ rcOut[i].id \notin Inbound(rcOut[i])

\* C6: reconcileNoteLinks is idempotent: applying it to its own output
\* changes no note's content, links.outbound or links.inbound.
C6_Idempotent ==
    rcPc = 2 =>
        /\ Len(rcAgain) = Len(rcOut)
        /\ \A i \in DOMAIN rcOut :
              /\ rcAgain[i].content = rcOut[i].content
              /\ rcAgain[i].links.outbound = rcOut[i].links.outbound
              /\ rcAgain[i].links.inbound = rcOut[i].links.inbound

\* The first pass rewrote a live link's text, demoted a broken link and
\* replaced stored links; the second pass then ran.
C6_Witness ==
    /\ rcPc = 2
    /\ \E i \in DOMAIN rcOut : \E j \in DOMAIN rcOut :
          /\ rcOut[i].content # rcIn[i].content
          /\ rcOut[i].links # rcIn[i].links
          /\ Outbound(rcOut[i]) # {}
          /\ BlockTextsOf(rcOut[i].content) # BlockTextsOf(rcIn[i].content)
          /\ DeletedId \in LinkTargetsOf(rcIn[j].content)
          /\ DeletedId \notin LinkTargetsOf(rcOut[j].content)

\* C7: after reconcileNoteLinks, every id in links.outbound and
\* links.inbound is the id of a note of the input collection.
C7_NoDanglingLinks ==
    rcPc >= 1 =>
        \A i \in DOMAIN rcOut :
            (Outbound(rcOut[i]) \cup Inbound(rcOut[i])) \subseteq NoteIds(rcIn)

(***************************************************************************)
(* The note store (src/src/stores/note-store.ts).  Each operator is the    *)
(* new state.notes an action computes from the current one.                *)
(***************************************************************************)
\* { ...note, ...updates }: the fields updates has replace the note's.
Spread(note, updates) ==
    [f \in DOMAIN note |-> IF f \in DOMAIN updates THEN updates[f] ELSE note[f]]
\* setNotes storing its argument as it is.
setNotes_NoReconcile(coll) == coll


setNotes(coll) == reconcileNoteLinks(coll)

addNote(stateNotes, note) == reconcileNoteLinks(Append(stateNotes, note))

updateNote(stateNotes, id, updates, now) ==
    reconcileNoteLinks(
        [i \in DOMAIN stateNotes |->
            IF stateNotes[i].id = id
            THEN [Spread(stateNotes[i], updates) EXCEPT !.updatedAt = now]
            ELSE stateNotes[i]])

deleteNote(stateNotes, id) ==
    reconcileNoteLinks(SelectSeq(stateNotes, LAMBDA note : note.id # id))

\* value ?? null
normalizeParent(value) == IF value = Undefined \/ value = Null THEN Null ELSE value

\* The while loop of moveNote that walks up from targetParentId: TRUE when
\* it meets id.  fuel bounds the walk by the number of notes, which an
\* acyclic parent chain never exceeds.
RECURSIVE ParentChainReaches(_, _, _, _)
ParentChainReaches(stateNotes, currentParentId, id, fuel) ==
    IF currentParentId = Null \/ currentParentId = Undefined \/ fuel = 0 THEN FALSE
    ELSE IF currentParentId = id THEN TRUE
    ELSE IF currentParentId \notin NoteIds(stateNotes) THEN FALSE
    ELSE ParentChainReaches(stateNotes, FindNote(stateNotes, currentParentId).parentId,
                            id, fuel - 1)

\* moveNote without the two-level check on the target parent.
MoveRejected_NoDepthCheck(stateNotes, id, targetParentId) ==
    \/ id \notin NoteIds(stateNotes)
    \/ targetParentId = id
    \/ /\ targetParentId # Null
       /\ ParentChainReaches(stateNotes, targetParentId, id, Len(stateNotes) + 1)

\* moveNote that only looks for the note to move.
MoveRejected_NoValidation(stateNotes, id, targetParentId) ==
    id \notin NoteIds(stateNotes)

\* The early returns of moveNote.
MoveRejected(stateNotes, id, targetParentId) ==
    \/ id \notin NoteIds(stateNotes)
    \/ targetParentId = id
    \/ /\ targetParentId # Null
       /\ ParentChainReaches(stateNotes, targetParentId, id, Len(stateNotes) + 1)
    \/ /\ targetParentId # Null
       /\ \/ targetParentId \notin NoteIds(stateNotes)
          \/ FindNote(stateNotes, targetParentId).parentId # Undefined

\* notes.filter(normalizeParent(parentId) === parentId).sort(by order)
SiblingsOf(coll, parentId) ==
    SortByKey(SelectSeq(coll, LAMBDA note : normalizeParent(note.parentId) = parentId),
              LAMBDA note : note.order)

\* siblings.forEach((sibling, index) => sibling.order = index) on the
\* notes of the collection.
RenumberIn(coll, parentId, siblings) ==
    [i \in DOMAIN coll |->
        IF normalizeParent(coll[i].parentId) = parentId
        THEN [coll[i] EXCEPT !.order = (CHOOSE k \in DOMAIN siblings : siblings[k] = coll[i]) - 1]
        ELSE coll[i]]

\* reorderSiblings that leaves the order values as they are.
reorderSiblings_Keep(coll, parentId) == coll

\* reorderSiblings: the notes of one parent get order 0..n-1 in place.
reorderSiblings(coll, parentId) == RenumberIn(coll, parentId, SiblingsOf(coll, parentId))

\* Array.prototype.splice(index, 0, item)
InsertAt(arr, index, item) ==
    SubSeq(arr, 1, index) \o <<item>> \o SubSeq(arr, index + 1, Len(arr))

RemoveAt(arr, index) == SubSeq(arr, 1, index - 1) \o SubSeq(arr, index + 1, Len(arr))

\* The end of moveNote without the notes of the other parents.
InsertMoved_SiblingsOnly(clonedNotes, destinationParentId, destinationSiblings, clampedIndex, movedNote) ==
    [k \in 1..(Len(destinationSiblings) + 1) |->
        [InsertAt(destinationSiblings, clampedIndex, movedNote)[k] EXCEPT !.order = k - 1]]

\* The end of moveNote: the moved note spliced into the destination
\* siblings at clampedIndex, those renumbered, the other notes first.
InsertMoved(clonedNotes, destinationParentId, destinationSiblings, clampedIndex, movedNote) ==
    SelectSeq(clonedNotes, LAMBDA note : normalizeParent(note.parentId) # destinationParentId)
    \o [k \in 1..(Len(destinationSiblings) + 1) |->
           [InsertAt(destinationSiblings, clampedIndex, movedNote)[k] EXCEPT !.order = k - 1]]

PlaceMoved(clonedNotes, noteToMove, targetParentId, destinationSiblings, clampedIndex, now) ==
    InsertMoved(clonedNotes, normalizeParent(targetParentId), destinationSiblings, clampedIndex,
                [noteToMove EXCEPT
                    !.parentId = IF targetParentId = Null THEN Undefined ELSE targetParentId,
                    !.order = clampedIndex,
                    !.updatedAt = now])

AttachMoved(clonedNotes, noteToMove, targetParentId, insertionIndex, destinationSiblings, now) ==
    PlaceMoved(clonedNotes, noteToMove, targetParentId, destinationSiblings,
               Min(Max(0, insertionIndex), Len(destinationSiblings)), now)

\* The note removed from the array and its old siblings renumbered.
DetachMoved(clonedNotes, noteToMove, targetParentId, insertionIndex, now) ==
    AttachMoved(clonedNotes, noteToMove, targetParentId, insertionIndex,
                SiblingsOf(clonedNotes, normalizeParent(targetParentId)), now)

\* moveNote taking the removal shift for every destination.
MoveFound_ShiftAlways(stateNotes, noteIndex, sourceParentId, targetParentId, adjustedIndex, now) ==
    DetachMoved(reorderSiblings(RemoveAt(stateNotes, noteIndex), sourceParentId),
                stateNotes[noteIndex], targetParentId,
                IF adjustedIndex > stateNotes[noteIndex].order
                THEN adjustedIndex - 1 ELSE adjustedIndex,
                now)

MoveFound(stateNotes, noteIndex, sourceParentId, targetParentId, adjustedIndex, now) ==
    DetachMoved(reorderSiblings(RemoveAt(stateNotes, noteIndex), sourceParentId),
                stateNotes[noteIndex], targetParentId,
                IF /\ sourceParentId = normalizeParent(targetParentId)
                   /\ adjustedIndex > stateNotes[noteIndex].order
                THEN adjustedIndex - 1 ELSE adjustedIndex,
                now)

\* The body of moveNote after its early returns, before reconciliation.
MovedNotes(stateNotes, id, targetParentId, targetIndex, now) ==
    MoveFound(stateNotes, FindIndex(stateNotes, id),
              normalizeParent(FindNote(stateNotes, id).parentId),
              targetParentId, Max(0, targetIndex), now)

moveNote(stateNotes, id, targetParentId, targetIndex, now) ==
    IF MoveRejected(stateNotes, id, targetParentId) THEN stateNotes
    ELSE reconcileNoteLinks(MovedNotes(stateNotes, id, targetParentId, targetIndex, now))

(***************************************************************************)
(* IndexedDBStorageService (src/unnamed/part_002): the notes table is a    *)
(* set of notes keyed by id.  Storage is taken to work: no call fails      *)
(* other than with NOT_FOUND.                                              *)
(***************************************************************************)
DbIds(table) == {note.id : note \in table}

Storage_has(table, id) == id \in DbIds(table)

Storage_getNote(table, id) == CHOOSE note \in table : note.id = id

\* toCollection().toArray(): the notes in primary-key order.
TableToArray(table) ==
    LET ids == DbIds(table)
        RECURSIVE Collect(_, _)
        Collect(k, acc) ==
            IF k > Len(IdPool) THEN acc
            ELSE Collect(k + 1, IF IdPool[k] \in ids
                                THEN Append(acc, Storage_getNote(table, IdPool[k]))
                                ELSE acc)
    IN  Collect(1, <<>>)

\* getNotes({parentId, sortBy: 'order', sortOrder: 'asc'}): the filter is
\* note.parentId === parentId, so null selects no note whose parentId is
\* undefined.
Storage_getNotesByParent(table, parentId) ==
    SortByKey(SelectSeq(TableToArray(table), LAMBDA note : note.parentId = parentId),
              LAMBDA note : note.order)

Storage_createNote(table, noteData, id, now) ==
    table \cup {[Spread(Note(id, "", EmptyString, Undefined, 0, <<>>, <<>>, now), noteData)
                    EXCEPT !.id = id, !.updatedAt = now]}

Storage_updateNote(table, id, updates, now) ==
    LET existingNote == Storage_getNote(table, id)
    IN  (table \ {existingNote})
        \cup {[Spread(existingNote, updates) EXCEPT !.id = id, !.updatedAt = now]}

Storage_deleteNote(table, id) == {note \in table : note.id # id}

(***************************************************************************)
(* NoteService (src/src/utils/backup.ts).  Each operator gives the result  *)
(* code of the call and the table after it.                                *)
(***************************************************************************)
Result(code, table) == [code |-> code, table |-> table]

\* parentId || null
OrNull(parentId) == IF parentId = Undefined \/ parentId = Null \/ parentId = "" THEN Null ELSE parentId

\* parentId || undefined
OrUndefined(parentId) ==
    IF parentId = Undefined \/ parentId = Null \/ parentId = "" THEN Undefined ELSE parentId

Truthy(parentId) == parentId # Undefined /\ parentId # Null /\ parentId # ""

\* getAllDescendants: the ids below noteId, by getNotesByParent.  fuel
\* bounds the recursion by the number of notes.
RECURSIVE getAllDescendants(_, _, _)
getAllDescendants(table, noteId, fuel) ==
    IF fuel = 0 THEN {}
    ELSE LET children == Storage_getNotesByParent(table, noteId)
         IN  {children[i].id : i \in DOMAIN children}
             \cup UNION {getAllDescendants(table, children[i].id, fuel - 1) : i \in DOMAIN children}

wouldCreateCircularReference(table, noteId, targetParentId) ==
    targetParentId \in getAllDescendants(table, noteId, Cardinality(table))

\* start and the notes above it in the table, following parentId.
RECURSIVE TableChain(_, _, _)
TableChain(table, start, fuel) ==
    IF ~Truthy(start) \/ fuel = 0 THEN {}
    ELSE {start} \cup (IF Storage_has(table, start)
                       THEN TableChain(table, Storage_getNote(table, start).parentId, fuel - 1)
                       ELSE {})

\* getAllDescendants(noteId) awaits itself for every child and keeps no
\* record of the notes it has seen: when noteId is among its own
\* descendants the recursion has no end and the call never returns.
NeverReturns(table, noteId) ==
    /\ Storage_has(table, noteId)
    /\ noteId \in TableChain(table, Storage_getNote(table, noteId).parentId,
                             Cardinality(table) + 1)

\* createNote that persists the note before it looks at the parent's depth.
NoteService_createNote_WriteFirst(table, title, content, parentId, newId, now) ==
    IF Truthy(parentId) /\ ~Storage_has(table, parentId)
    THEN Result("VALIDATION_ERROR", table)
    ELSE Result(IF Truthy(parentId) /\ Truthy(Storage_getNote(table, parentId).parentId)
                THEN "VALIDATION_ERROR" ELSE "ok",
                Storage_createNote(table,
                    [title |-> title, content |-> content, parentId |-> parentId,
                     order |-> Len(Storage_getNotesByParent(table, OrNull(parentId))),
                     links |-> [outbound |-> <<>>, inbound |-> <<>>]],
                    newId, now))

NoteService_createNote(table, title, content, parentId, newId, now) ==
    IF Truthy(parentId) /\ ~Storage_has(table, parentId)
    THEN Result("VALIDATION_ERROR", table)
    ELSE IF Truthy(parentId) /\ Truthy(Storage_getNote(table, parentId).parentId)
    THEN Result("VALIDATION_ERROR", table)
    ELSE LET siblings == Storage_getNotesByParent(table, OrNull(parentId))
             nextOrder == Len(siblings)
         IN  Result("ok", Storage_createNote(table,
                 [title |-> title, content |-> content, parentId |-> parentId,
                  order |-> nextOrder, links |-> [outbound |-> <<>>, inbound |-> <<>>]],
                 newId, now))

\* updateNote that changes the parent and leaves the order as it was.
NoteService_updateNote_KeepOrder(table, id, options, now) ==
    LET supplied == "parentId" \in DOMAIN options
        parentId == IF supplied THEN options.parentId ELSE Undefined
        write == IF Storage_has(table, id)
                 THEN Result("ok", Storage_updateNote(table, id, options, now))
                 ELSE Result("NOT_FOUND", table)
    IN  IF ~supplied \/ parentId = Undefined THEN write
        ELSE IF Truthy(parentId) /\ ~Storage_has(table, parentId)
        THEN Result("VALIDATION_ERROR", table)
        ELSE IF Truthy(parentId) /\ Truthy(Storage_getNote(table, parentId).parentId)
        THEN Result("VALIDATION_ERROR", table)
        ELSE IF Truthy(parentId) /\ parentId = id
        THEN Result("VALIDATION_ERROR", table)
        ELSE IF Truthy(parentId) /\ NeverReturns(table, id)
        THEN Result("never returns", table)
        ELSE IF Truthy(parentId) /\ wouldCreateCircularReference(table, id, parentId)
        THEN Result("VALIDATION_ERROR", table)
        ELSE write

\* options is a record holding the fields the caller supplied.
NoteService_updateNote(table, id, options, now) ==
    LET supplied == "parentId" \in DOMAIN options
        parentId == IF supplied THEN options.parentId ELSE Undefined
        write == IF Storage_has(table, id)
                 THEN Result("ok", Storage_updateNote(table, id, options, now))
                 ELSE Result("NOT_FOUND", table)
    IN  IF ~supplied \/ parentId = Undefined THEN write
        ELSE IF Truthy(parentId) /\ ~Storage_has(table, parentId)
        THEN Result("VALIDATION_ERROR", table)
        ELSE IF Truthy(parentId) /\ Truthy(Storage_getNote(table, parentId).parentId)
        THEN Result("VALIDATION_ERROR", table)
        ELSE IF Truthy(parentId) /\ parentId = id
        THEN Result("VALIDATION_ERROR", table)
        ELSE IF Truthy(parentId) /\ NeverReturns(table, id)
        THEN Result("never returns", table)
        ELSE IF Truthy(parentId) /\ wouldCreateCircularReference(table, id, parentId)
        THEN Result("VALIDATION_ERROR", table)
        ELSE IF ~Storage_has(table, id) THEN Result("NOT_FOUND", table)
        ELSE IF Storage_getNote(table, id).parentId # parentId
        THEN LET newSiblings == Storage_getNotesByParent(table, OrNull(parentId))
                 newOrder == Len(newSiblings)
             IN  Result("ok", Storage_updateNote(table, id,
                     [f \in (DOMAIN options) \cup {"parentId", "order"} |->
                         IF f = "parentId" THEN parentId
                         ELSE IF f = "order" THEN newOrder
                         ELSE options[f]], now))
        ELSE write

\* deleteNote that removes the note and leaves its children as they are.
NoteService_deleteNote_NoReparent(table, id, now) ==
    IF ~Storage_has(table, id) THEN Result("NOT_FOUND", table)
    ELSE Result("ok", Storage_deleteNote(table, id))

NoteService_deleteNote(table, id, now) ==
    IF ~Storage_has(table, id) THEN Result("NOT_FOUND", table)
    ELSE LET note == Storage_getNote(table, id)
             children == Storage_getNotesByParent(table, id)
             RECURSIVE Reparent(_, _)
             Reparent(t, i) ==
                 IF i > Len(children) THEN t
                 ELSE Reparent(Storage_updateNote(t, children[i].id,
                                   [parentId |-> OrUndefined(note.parentId)], now), i + 1)
         IN  Result("ok", Storage_deleteNote(Reparent(table, 1), id))

\* targetParentId is Undefined when the caller leaves it out.
NoteService_reorderNote(table, noteId, targetParentId, targetOrder, now) ==
    IF ~Storage_has(table, noteId) THEN Result("NOT_FOUND", table)
    ELSE
    LET note == Storage_getNote(table, noteId)
        given == targetParentId # Undefined /\ targetParentId # Null
    IN  IF given /\ ~Storage_has(table, targetParentId)
        THEN Result("VALIDATION_ERROR", table)
        ELSE IF given /\ Truthy(Storage_getNote(table, targetParentId).parentId)
        THEN Result("VALIDATION_ERROR", table)
        ELSE IF given /\ NeverReturns(table, noteId)
        THEN Result("never returns", table)
        ELSE IF given /\ wouldCreateCircularReference(table, noteId, targetParentId)
        THEN Result("VALIDATION_ERROR", table)
        ELSE
        LET newParentId == IF targetParentId = Undefined THEN note.parentId ELSE targetParentId
            fetched == Storage_getNotesByParent(table, OrNull(newParentId))
            siblings == IF note.parentId = newParentId
                        THEN SelectSeq(fetched, LAMBDA sib : sib.id # noteId)
                        ELSE fetched
            maxOrder == Len(siblings)
            clampedOrder == Max(0, Min(maxOrder, targetOrder))
            NewOrder(index) == IF index - 1 >= clampedOrder THEN index ELSE index - 1
            RECURSIVE Shift(_, _)
            Shift(t, index) ==
                IF index > Len(siblings) THEN t
                ELSE Shift(IF siblings[index].order # NewOrder(index)
                           THEN Storage_updateNote(t, siblings[index].id,
                                                   [order |-> NewOrder(index)], now)
                           ELSE t,
                           index + 1)
        IN  Result("ok", Storage_updateNote(Shift(table, 1), noteId,
                [parentId |-> OrUndefined(newParentId), order |-> clampedOrder], now))

(***************************************************************************)
(* Actions: the calls of the store and of NoteService.                     *)
(***************************************************************************)
Times == 1..MaxTime

Op(name, id) == [op |-> name, id |-> id]

\* App.createNewNote's argument to addNote: a root note, order notes.length.
NewNote(id, order, now) ==
    Note(id, "Untitled Note", EmptyString, Undefined, order, <<>>, <<>>, now)

SetNotes(coll) ==
    /\ notes' = setNotes(coll)
    /\ lastOp' = Op("setNotes", Null)
    /\ lastResult' = Void
    /\ UNCHANGED <<selectedNoteId, db, rcVars, appVars>>

AddNote(note) ==
    /\ notes' = addNote(notes, note)
    /\ lastOp' = Op("addNote", Null)
    /\ lastResult' = Void
    /\ UNCHANGED <<selectedNoteId, db, rcVars, appVars>>

UpdateNote(id, updates, now) ==
    /\ notes' = updateNote(notes, id, updates, now)
    /\ lastOp' = Op("updateNote", id)
    /\ lastResult' = Void
    /\ UNCHANGED <<selectedNoteId, db, rcVars, appVars>>

DeleteNote(id) ==
    /\ notes' = deleteNote(notes, id)
    /\ selectedNoteId' = IF selectedNoteId = id THEN Null ELSE selectedNoteId
    /\ lastOp' = Op("deleteNote", id)
    /\ lastResult' = Void
    /\ UNCHANGED <<db, rcVars, appVars>>

SelectNote(id) ==
    /\ selectedNoteId' = id
    /\ lastOp' = Op("selectNote", Null)
    /\ lastResult' = Void
    /\ UNCHANGED <<notes, db, rcVars, appVars>>

MoveNote(id, targetParentId, targetIndex, now) ==
    /\ notes' = moveNote(notes, id, targetParentId, targetIndex, now)
    /\ lastOp' = Op(IF MoveRejected(notes, id, targetParentId)
                    THEN "moveNote rejected" ELSE "moveNote", Null)
    /\ lastResult' = Void
    /\ UNCHANGED <<selectedNoteId, db, rcVars, appVars>>

ServiceCall(name, result) ==
    /\ db' = result.table
    /\ lastResult' = result.code
    /\ lastOp' = Op(name, Null)
    /\ UNCHANGED <<storeVars, rcVars, appVars>>

CreateNote(title, content, parentId, newId, now) ==
    /\ newId \notin DbIds(db)
    /\ ServiceCall("NoteService.createNote",
                   NoteService_createNote(db, title, content, parentId, newId, now))

ServiceUpdateNote(id, options, now) ==
    ServiceCall("NoteService.updateNote", NoteService_updateNote(db, id, options, now))

ServiceDeleteNote(id, now) ==
    ServiceCall("NoteService.deleteNote", NoteService_deleteNote(db, id, now))

ReorderNote(noteId, targetParentId, targetOrder, now) ==
    ServiceCall("NoteService.reorderNote",
                NoteService_reorderNote(db, noteId, targetParentId, targetOrder, now))

(***************************************************************************)
(* SpecTree: the note tree under the store's mutations.                    *)
(* The initial collections satisfy the two-level limit and have contiguous *)
(* sibling orders; ids come from TreeIds, so at most MaxTreeNotes exist.    *)
(***************************************************************************)
TreeIds == {IdPool[i] : i \in 1..MaxTreeNotes}

\* Every parent bucket's order values are exactly 0..n-1.
Contiguous(noteSet) ==
    \A p \in {normalizeParent(note.parentId) : note \in noteSet} :
        LET bucket == {note \in noteSet : normalizeParent(note.parentId) = p}
        IN  /\ \A k \in 0..(Cardinality(bucket) - 1) : \E note \in bucket : note.order = k
            /\ \A x \in bucket : \A y \in bucket : x.order = y.order => x.id = y.id

\* No note's parentId refers to a note whose own parentId is set.
TwoLevel(noteSet) ==
    \A note \in noteSet : \A parent \in noteSet :
        note.parentId = parent.id => ~Truthy(parent.parentId)

ParentsResolve(noteSet) ==
    \A note \in noteSet :
        Truthy(note.parentId) =>
            note.parentId # note.id /\ \E parent \in noteSet : parent.id = note.parentId

TreeCollectionsOfLen(n) ==
    LET ids == {IdPool[i] : i \in 1..n}
        shapes == [1..n -> (ids \cup {Undefined}) \X (0..(n - 1))]
        Build(shape) == [i \in 1..n |->
            Note(IdPool[i], "Untitled Note", EmptyString, shape[i][1], shape[i][2], <<>>, <<>>, 1)]
    IN  {coll \in {Build(shape) : shape \in shapes} :
            /\ ParentsResolve(SeqToSet(coll))
            /\ TwoLevel(SeqToSet(coll))
            /\ Contiguous(SeqToSet(coll))}

InitTree ==
    /\ \E n \in 0..MaxTreeNotes : notes \in TreeCollectionsOfLen(n)
    /\ db = {}
    /\ selectedNoteId = Null
    /\ lastOp = Idle
    /\ lastResult = Void
    /\ rcIn = <<>>
    /\ rcOut = <<>>
    /\ rcAgain = <<>>
    /\ rcPc = 0
    /\ InitApp

NextTree ==
    \/ \E id \in TreeIds \ NoteIds(notes) : \E now \in Times :
          AddNote(NewNote(id, Len(notes), now))
    \/ \E id \in TreeIds : DeleteNote(id)
    \/ \E id \in TreeIds : \E targetParentId \in TreeIds \cup {Null} :
          \E targetIndex \in 0..MaxIndex : \E now \in Times :
             MoveNote(id, targetParentId, targetIndex, now)

SpecTree == InitTree /\ [][NextTree]_vars

(***************************************************************************)
(* SpecService: the notes table under NoteService's calls.  The store and  *)
(* the service share no state, so each is explored on its own.             *)
(***************************************************************************)
InitService ==
    /\ \E m \in 0..MaxTreeNotes : db \in {SeqToSet(coll) : coll \in TreeCollectionsOfLen(m)}
    /\ notes = <<>>
    /\ selectedNoteId = Null
    /\ lastOp = Idle
    /\ lastResult = Void
    /\ rcIn = <<>>
    /\ rcOut = <<>>
    /\ rcAgain = <<>>
    /\ rcPc = 0
    /\ InitApp

NextService ==
    \/ \E parentId \in TreeIds \cup {Undefined} : \E newId \in TreeIds : \E now \in Times :
          CreateNote("Untitled Note", EmptyString, parentId, newId, now)
    \/ \E id \in TreeIds : \E now \in Times :
          \E options \in {[parentId |-> p] : p \in TreeIds} \cup {[title |-> "Untitled Note"]} :
             ServiceUpdateNote(id, options, now)
    \/ \E id \in TreeIds : \E now \in Times : ServiceDeleteNote(id, now)
    \/ \E noteId \in TreeIds : \E targetParentId \in TreeIds \cup {Null, Undefined} :
          \E targetOrder \in 0..MaxIndex : \E now \in Times :
             ReorderNote(noteId, targetParentId, targetOrder, now)

SpecService == InitService /\ [][NextService]_vars

\* C1: starting from collections that satisfy the two-level limit, after
\* any sequence of NoteService.createNote, NoteService.updateNote and store
\* moveNote calls no note has a parentId that refers to a note whose own
\* parentId is set.
C1_TreeDepth == TwoLevel(SeqToSet(notes)) /\ TwoLevel(db)

\* C2: after any mutation of the note set applied to a collection whose
\* sibling orders are contiguous, every parent bucket's order values are
\* exactly 0..n-1, with no gap and no duplicate.
C2_OrderContiguity == Contiguous(SeqToSet(notes)) /\ Contiguous(db)

(***************************************************************************)
(* Properties of the store's moveNote (SpecTree).                          *)
(***************************************************************************)
MoveIds == TreeIds
MoveParents == TreeIds \cup {Null}
MoveIndexes == 0..MaxIndex

\* start and the notes above it, following parentId while the notes exist.
RECURSIVE AncestorChain(_, _, _)
AncestorChain(coll, start, fuel) ==
    IF ~Truthy(start) \/ fuel = 0 THEN {}
    ELSE {start} \cup (IF start \in NoteIds(coll)
                       THEN AncestorChain(coll, FindNote(coll, start).parentId, fuel - 1)
                       ELSE {})

\* The four cases in which a move has to be refused.
MustRefuse(coll, id, targetParentId) ==
    \/ id \notin NoteIds(coll)
    \/ targetParentId = id
    \/ /\ targetParentId # Null
       /\ id \in AncestorChain(coll, targetParentId, Len(coll) + 1)
    \/ /\ targetParentId # Null
       /\ \/ targetParentId \notin NoteIds(coll)
          \/ Truthy(FindNote(coll, targetParentId).parentId)

\* The ids of a parent's children in sibling order.
ChildIds(coll, parentId) ==
    [k \in DOMAIN SiblingsOf(coll, parentId) |-> SiblingsOf(coll, parentId)[k].id]

Without(ids, id) == SelectSeq(ids, LAMBDA x : x # id)

\* C11: store moveNote(id, targetParentId, targetIndex) leaves state.notes
\* as it was when id is not found, when targetParentId equals id, when id
\* is on targetParentId's ancestor chain, or when targetParentId is
\* non-null and the target parent is missing or itself has a parentId.
C11_RejectedMoveIsNoOp ==
    \A id \in MoveIds : \A targetParentId \in MoveParents :
       \A targetIndex \in MoveIndexes : \A now \in Times :
          MustRefuse(notes, id, targetParentId) =>
              moveNote(notes, id, targetParentId, targetIndex, now) = notes

\* A move was refused on a collection that has a child note, so that the
\* depth and the cycle refusals were among the possible ones.
C11_Witness ==
    /\ lastOp = Op("moveNote rejected", Null)
    /\ \E i \in DOMAIN notes : \E j \in DOMAIN notes : notes[i].parentId = notes[j].id

\* What an accepted move of id to another parent must leave.
MovedAcross(before, after, id, targetParentId, targetIndex) ==
    /\ normalizeParent(FindNote(after, id).parentId) = targetParentId
    /\ FindNote(after, id).order =
          Min(Max(targetIndex, 0), Len(SiblingsOf(before, targetParentId)))
    /\ Without(ChildIds(after, targetParentId), id) = ChildIds(before, targetParentId)
    /\ ChildIds(after, normalizeParent(FindNote(before, id).parentId))
          = Without(ChildIds(before, normalizeParent(FindNote(before, id).parentId)), id)

\* C12: after an accepted store moveNote(id, P, I) to a different parent P
\* the note has parentId P and order min(max(I, 0), k), k being the number
\* of P's children before the move; P's previous children keep their
\* relative order and so do the old parent's remaining children.
C12_MoveToOtherParent ==
    \A id \in MoveIds : \A targetParentId \in MoveParents :
       \A targetIndex \in MoveIndexes : \A now \in Times :
          (/\ ~MustRefuse(notes, id, targetParentId)
           /\ normalizeParent(FindNote(notes, id).parentId) # targetParentId)
          => MovedAcross(notes, moveNote(notes, id, targetParentId, targetIndex, now),
                         id, targetParentId, targetIndex)

\* The scenario of the specification: after a move the second note is the
\* only child of the first, at order 0, and the first is a root at order 0.
C12_Witness ==
    /\ lastOp = Op("moveNote", Null)
    /\ Len(notes) = 2
    /\ FindNote(notes, IdPool[1]).parentId = Undefined
    /\ FindNote(notes, IdPool[1]).order = 0
    /\ FindNote(notes, IdPool[2]).parentId = IdPool[1]
    /\ FindNote(notes, IdPool[2]).order = 0

\* id placed directly before the sibling that was at position targetIndex,
\* at the end when there is no such sibling.
InsertBefore(ids, id, targetIndex) ==
    IF targetIndex >= Len(ids) THEN Without(ids, id) \o <<id>>
    ELSE IF ids[targetIndex + 1] = id THEN ids
    ELSE LET rest == Without(ids, id)
             at == CHOOSE k \in DOMAIN rest : rest[k] = ids[targetIndex + 1]
         IN  InsertAt(rest, at - 1, id)

\* C13: an accepted store moveNote within the same parent, on a collection
\* reached through addNote, deleteNote and moveNote, places the moved note
\* directly before the sibling that was at position I of the order-sorted
\* sibling list (at the end when I is at least the sibling count); I = own
\* position and I = own position + 1 leave the sibling sequence unchanged.
C13_MoveWithinParent ==
    \A id \in MoveIds : \A targetParentId \in MoveParents :
       \A targetIndex \in MoveIndexes : \A now \in Times :
          (/\ ~MustRefuse(notes, id, targetParentId)
           /\ normalizeParent(FindNote(notes, id).parentId) = targetParentId)
          => ChildIds(moveNote(notes, id, targetParentId, targetIndex, now), targetParentId)
                = InsertBefore(ChildIds(notes, targetParentId), id, targetIndex)

\* No note is on the chain of notes above it.
Acyclic(coll) ==
    \A i \in DOMAIN coll :
        coll[i].id \notin AncestorChain(coll, coll[i].parentId, Len(coll) + 1)

\* C14: from a collection whose parent relation is acyclic, after any
\* sequence of store moveNote calls no note is its own parent and following
\* parentId from a note never returns to that note.
C14_Acyclic == Acyclic(notes)

\* A move was accepted and left a chain of three notes.
C14_Witness ==
    /\ lastOp = Op("moveNote", Null)
    /\ \E i \in DOMAIN notes : \E j \in DOMAIN notes :
          /\ notes[i].parentId = notes[j].id
          /\ Truthy(notes[j].parentId)

(***************************************************************************)
(* Properties of NoteService (SpecService).  The calls are those of        *)
(* NextService, made on every table the service reaches.                   *)
(***************************************************************************)
ServiceParents == TreeIds
ServiceOptions == {[parentId |-> p] : p \in ServiceParents} \cup {[title |-> "Untitled Note"]}
ReorderParents == TreeIds \cup {Null, Undefined}

\* The notes below id: those with id on the chain above them.
DescendantsOf(table, id) ==
    {note.id : note \in {n \in table :
                            id \in TableChain(table, n.parentId, Cardinality(table) + 1)}}

\* The notes a call has written with their own id as parentId.
SelfParented(before, after) == {note \in after \ before : note.parentId = note.id}

\* C15: NoteService.updateNote and NoteService.reorderNote return a
\* VALIDATION_ERROR result when the requested parent is the note itself or
\* one of its descendants, and neither stores a note whose parentId equals
\* its own id.
C15_NoSelfParent ==
    \A id \in DbIds(db) : \A parentId \in ServiceParents :
       \A targetOrder \in MoveIndexes : \A now \in Times :
          /\ (parentId = id \/ parentId \in DescendantsOf(db, id)) =>
                /\ NoteService_updateNote(db, id, [parentId |-> parentId], now).code
                      = "VALIDATION_ERROR"
                /\ NoteService_reorderNote(db, id, parentId, targetOrder, now).code
                      = "VALIDATION_ERROR"
          /\ SelfParented(db, NoteService_updateNote(db, id, [parentId |-> parentId], now).table)
                = {}
          /\ SelfParented(db, NoteService_reorderNote(db, id, parentId, targetOrder, now).table)
                = {}

\* C16: whenever NoteService.createNote, updateNote or reorderNote returns
\* a VALIDATION_ERROR, the call has written nothing: the stored notes are
\* the ones before the call.
C16_ValidationWritesNothing ==
    /\ \A parentId \in TreeIds \cup {Undefined} : \A newId \in TreeIds \ DbIds(db) :
          \A now \in Times :
             NoteService_createNote(db, "Untitled Note", EmptyString, parentId, newId, now).code
                = "VALIDATION_ERROR"
             => NoteService_createNote(db, "Untitled Note", EmptyString, parentId, newId,
                                       now).table = db
    /\ \A id \in TreeIds : \A options \in ServiceOptions : \A now \in Times :
          NoteService_updateNote(db, id, options, now).code = "VALIDATION_ERROR"
          => NoteService_updateNote(db, id, options, now).table = db
    /\ \A noteId \in TreeIds : \A targetParentId \in ReorderParents :
          \A targetOrder \in MoveIndexes : \A now \in Times :
             NoteService_reorderNote(db, noteId, targetParentId, targetOrder, now).code
                = "VALIDATION_ERROR"
             => NoteService_reorderNote(db, noteId, targetParentId, targetOrder, now).table = db

\* A call has returned VALIDATION_ERROR on a table that holds notes.
C16_Witness ==
    /\ lastResult = "VALIDATION_ERROR"
    /\ lastOp.op \in {"NoteService.createNote", "NoteService.updateNote",
                       "NoteService.reorderNote"}
    /\ db # {}

\* What deleteNote(id) must leave of the table before.
Flattened(before, after, id) ==
    /\ DbIds(after) = DbIds(before) \ {id}
    /\ \A child \in before :
          (child.parentId = id /\ child.id # id) =>
              Storage_getNote(after, child.id).parentId
                 = OrUndefined(Storage_getNote(before, id).parentId)

\* C17: after NoteService.deleteNote(id) on an existing note the note is
\* absent, every note that was a direct child of id has the deleted note's
\* former parentId (none when it had none), and no other note is removed.
C17_DeleteFlattens ==
    \A id \in DbIds(db) : \A now \in Times :
        /\ NoteService_deleteNote(db, id, now).code = "ok"
        /\ Flattened(db, NoteService_deleteNote(db, id, now).table, id)

\* A note was deleted, and the table holds a root and a child of it still.
C17_Witness ==
    /\ lastOp = Op("NoteService.deleteNote", Null)
    /\ lastResult = "ok"
    /\ \E note \in db : \E parent \in db : note.parentId = parent.id

\* The notes of the table that share a parent (none for the roots).
SharingParent(table, parentId) ==
    {note \in table : OrUndefined(note.parentId) = OrUndefined(parentId)}

\* C18: NoteService.createNote with no parent or a valid parent persists a
\* note whose order is the number of notes that share that parent, the root
\* notes included, and whose links.outbound and links.inbound are empty.
C18_CreateOrder ==
    \A parentId \in TreeIds \cup {Undefined} : \A newId \in TreeIds \ DbIds(db) :
       \A now \in Times :
          NoteService_createNote(db, "Untitled Note", EmptyString, parentId, newId, now).code
             = "ok"
          => LET after == NoteService_createNote(db, "Untitled Note", EmptyString, parentId,
                                                 newId, now).table
             IN  /\ Storage_has(after, newId)
                 /\ Storage_getNote(after, newId).order
                       = Cardinality(SharingParent(db, parentId))
                 /\ Storage_getNote(after, newId).links
                       = [outbound |-> <<>>, inbound |-> <<>>]

\* parentId names a note that may become id's parent.
ValidParent(table, id, parentId) ==
    /\ Storage_has(table, parentId)
    /\ ~Truthy(Storage_getNote(table, parentId).parentId)
    /\ parentId # id
    /\ parentId \notin DescendantsOf(table, id)
    /\ id \notin DescendantsOf(table, id)

\* C19: NoteService.updateNote that changes parentId to a valid different
\* parent stores the note with the new parentId and with the new parent's
\* child count before the move as order; when parentId is not supplied or
\* is the current parent the call leaves the note's order as it is.
C19_UpdateAppends ==
    \A id \in DbIds(db) : \A options \in ServiceOptions : \A now \in Times :
        LET current == Storage_getNote(db, id)
            result == NoteService_updateNote(db, id, options, now)
        IN  IF "parentId" \in DOMAIN options /\ options.parentId # current.parentId
            THEN ValidParent(db, id, options.parentId) =>
                    /\ result.code = "ok"
                    /\ Storage_getNote(result.table, id).parentId = options.parentId
                    /\ Storage_getNote(result.table, id).order
                          = Cardinality({note \in db : note.parentId = options.parentId})
            ELSE /\ Storage_has(result.table, id)
                 /\ Storage_getNote(result.table, id).order = current.order

\* updateNote has moved a note under a parent that had a child: the parent
\* has two children, at order 0 and 1.
C19_Witness ==
    /\ lastOp = Op("NoteService.updateNote", Null)
    /\ lastResult = "ok"
    /\ \E parent \in db : \E first \in db : \E second \in db :
          /\ first.parentId = parent.id /\ first.order = 0
          /\ second.parentId = parent.id /\ second.order = 1

(***************************************************************************)
(* SpecStore: the store's notes under its actions, with linked content.    *)
(* Notes arrive by import (WelcomeScreen.applyImportedNotes -> setNotes),  *)
(* by App.createNewNote (addNote), and change by the autosave's updateNote *)
(* (title, content), by deleteNote and by moveNote.                        *)
(***************************************************************************)
ImportedNote(id, title, content, stored) ==
    Note(id, title, content, Undefined, IdRank(id) - 1, stored[1], stored[2], 1)

\* Backups of two notes: links with stale titles, broken links, a self
\* link, a document not laid out canonically, stale stored link arrays.
Imports ==
    {<<ImportedNote(IdPool[1], "Foo", PlainDoc(TRUE), storedFirst),
       ImportedNote(IdPool[2], "Bar", second, <<<<DeletedId>>, <<DeletedId, IdPool[2]>>>>)>> :
        second \in {OneLinkDoc(IdPool[1], "Bar"), TwoLinkDoc(IdPool[1], DeletedId),
                    MixedDoc(IdPool[1])},
        storedFirst \in {<<<<>>, <<>>>>, <<<<"">>, <<>>>>}}
    \cup {<<ImportedNote(IdPool[1], "Foo", OneLinkDoc(IdPool[2], NotAString), <<<<>>, <<>>>>),
            ImportedNote(IdPool[2], "Bar", OneLinkDoc(IdPool[2], "Foo"), <<<<>>, <<>>>>)>>}

RenameTitles == {"Renamed"}

\* What the editor hands to the autosave: JSON.stringify(convertToRaw(..)).
EditorContents == {PlainDoc(TRUE)} \cup {OneLinkDoc(target, "Foo") : target \in LinkIds}

StoreUpdates ==
    {[title |-> title] : title \in RenameTitles}
    \cup {[content |-> content] : content \in EditorContents}

InitStore ==
    /\ notes = <<>>
    /\ selectedNoteId = Null
    /\ db = {}
    /\ lastOp = Idle
    /\ lastResult = Void
    /\ rcIn = <<>>
    /\ rcOut = <<>>
    /\ rcAgain = <<>>
    /\ rcPc = 0
    /\ InitApp

NextStore ==
    \/ \E coll \in Imports : SetNotes(coll)
    \/ \E id \in LinkIds \ NoteIds(notes) : \E now \in Times :
          AddNote(NewNote(id, Len(notes), now))
    \/ \E id \in LinkIds : \E updates \in StoreUpdates : \E now \in Times :
          UpdateNote(id, updates, now)
    \/ \E id \in LinkIds : DeleteNote(id)
    \/ \E id \in LinkIds : \E targetParentId \in LinkIds \cup {Null} :
          \E targetIndex \in 0..MaxNotes : \E now \in Times :
             MoveNote(id, targetParentId, targetIndex, now)

SpecStore == InitStore /\ [][NextStore]_vars

(***************************************************************************)
(* Properties of the store's link maintenance (SpecStore).                 *)
(***************************************************************************)
\* The ranges that point at target, each with the block it is in.
RangesTo(ranges, target) ==
    UNION {{[block |-> b, range |-> ranges[b][r]] :
               r \in {q \in DOMAIN ranges[b] : ranges[b][q].noteId = target}} :
           b \in DOMAIN ranges}

\* The NOTE_LINK ranges of a content string that point at target.
LinksTo(content, target) == RangesTo(LinkRangesOf(content), target)

BlockEntities(contentState) ==
    [b \in DOMAIN contentState.blocks |-> contentState.blocks[b].ents]

\* The entity key of each character of each block (<<>> for no document).
EntitiesOf(content) ==
    IF parseRawContent(content) = ParsedNull \/ convertFromRawThrows(parseRawContent(content))
    THEN <<>>
    ELSE BlockEntities(convertFromRaw(parseRawContent(content)))

\* What updateNote(A, ..) must leave in B, a note that linked to A.
Renamed(A, before, after, target) ==
    /\ Cardinality(LinksTo(after.content, A)) = Cardinality(LinksTo(before.content, A))
    /\ \A link \in LinksTo(after.content, A) :
          /\ link.range.text = "[[" \o target.title \o "]]"
          /\ link.range.title = target.title
    /\ before.id \in Inbound(target)
    /\ A \in Outbound(after)

\* C8: when note B's content holds a NOTE_LINK entity to another note A,
\* then after the store's updateNote on A, T being the title A has then,
\* every such range of B shows the text [[T]] and carries the entity title
\* T, A.links.inbound contains B's id and B.links.outbound contains A's id.
C8_RenamePropagation ==
    [][\A A \in LinkIds :
          (lastOp' = Op("updateNote", A) /\ A \in NoteIds(notes)) =>
              \A i \in DOMAIN notes :
                  (notes[i].id # A /\ LinksTo(notes[i].content, A) # {}) =>
                      Renamed(A, notes[i], FindNote(notes', notes[i].id), FindNote(notes', A))]_vars

\* A note was renamed while another note linked to it, and that note's
\* link now shows the new title.
C8_Witness ==
    \E A \in LinkIds : \E i \in DOMAIN notes :
        /\ lastOp = Op("updateNote", A)
        /\ A \in NoteIds(notes)
        /\ FindNote(notes, A).title \in RenameTitles
        /\ notes[i].id # A
        /\ \E link \in LinksTo(notes[i].content, A) :
              link.range.text = "[[" \o FindNote(notes, A).title \o "]]"

\* What deleteNote(A) must leave in B, a note that linked to A: the text
\* of every block as it was, no entity on the characters of the former
\* range, no link to A, and content that a later reconciliation with a note
\* of id A present again does not touch.
Demoted(A, before, after, deleted, later) ==
    /\ LinksTo(after.content, A) = {}
    /\ BlockTextsOf(after.content) = BlockTextsOf(before.content)
    /\ \A link \in LinksTo(before.content, A) :
          /\ SubSeq(BlockTextsOf(after.content)[link.block],
                    link.range.start + 1, link.range.end) = "[[" \o deleted.title \o "]]"
          /\ \A p \in (link.range.start + 1)..link.range.end :
                EntitiesOf(after.content)[link.block][p] = NoEntity
    /\ FindNote(later, before.id).content = after.content
    /\ A \notin Outbound(FindNote(later, before.id))

\* C9: after the store's deleteNote(A) where note B's content held a
\* NOTE_LINK entity to A, no remaining note's links.outbound or
\* links.inbound contains A's id, and B's former link range is the plain
\* text [[<A's last title>]] with no entity, inert in later reconciliation.
C9_BrokenLinkDemotion ==
    [][\A A \in LinkIds :
          (lastOp' = Op("deleteNote", A) /\ A \in NoteIds(notes)) =>
              /\ A \notin NoteIds(notes')
              /\ \A j \in DOMAIN notes' : A \notin (Outbound(notes'[j]) \cup Inbound(notes'[j]))
              /\ \A i \in DOMAIN notes :
                    (notes[i].id # A /\ LinksTo(notes[i].content, A) # {}) =>
                        Demoted(A, notes[i], FindNote(notes', notes[i].id), FindNote(notes, A),
                                addNote(notes', NewNote(A, Len(notes'), 1)))]_vars

\* A note was deleted and the remaining note shows the deleted note's
\* bracketed title as text without an entity.
C9_Witness ==
    \E A \in LinkIds : \E i \in DOMAIN notes : \E b \in DOMAIN BlockTextsOf(notes[i].content) :
        /\ lastOp = Op("deleteNote", A)
        /\ A \notin NoteIds(notes)
        /\ LinksTo(notes[i].content, A) = {}
        /\ BlockTextsOf(notes[i].content)[b] \in {"see [[Foo]]!", "see [[Renamed]]!"}
        /\ \A p \in DOMAIN EntitiesOf(notes[i].content)[b] :
              EntitiesOf(notes[i].content)[b][p] = NoEntity

\* C10: after every notes-changing store action (setNotes, also of an
\* imported backup, addNote, updateNote, deleteNote, accepted moveNote)
\* state.notes is a fixed point of reconcileNoteLinks: a further pass
\* changes no note's content or links.
C10_FixedPoint ==
    /\ Len(reconcileNoteLinks(notes)) = Len(notes)
    /\ \A i \in DOMAIN notes :
          /\ reconcileNoteLinks(notes)[i].content = notes[i].content
          /\ reconcileNoteLinks(notes)[i].links = notes[i].links

\* An imported backup whose links and content reconciliation had to
\* rewrite is in the store.
C10_Witness ==
    /\ lastOp = Op("setNotes", Null)
    /\ \E coll \in Imports :
          /\ notes = reconcileNoteLinks(coll)
          /\ \E i \in DOMAIN coll :
                /\ notes[i].content # coll[i].content
                /\ notes[i].links # coll[i].links

(***************************************************************************)
(* The App component's autosave (src/src/App.tsx).  The store's fields and *)
(* the component's refs are gathered in one record that the callbacks      *)
(* transform in sequence, as the code's successive set() calls do.         *)
(***************************************************************************)
NoDraft == [id |-> Null]
NoTimer == [noteId |-> Null]
NoNote == [id |-> Null]

Draft(id, title, content) == [id |-> id, title |-> title, content |-> content]

\* x ?? y, for ids and titles
Coalesce(x, y) == IF x = Undefined \/ x = Null THEN y ELSE x

\* x ?? y, for the content of a draft: NoContent stands for a draft
\* without the field.
NoContent == [kind |-> "undefined"]

CoalesceContent(x, y) == IF x = NoContent THEN y ELSE x

HasDraft(drafts, id) == \E k \in DOMAIN drafts : drafts[k].id = id

DraftOf(drafts, id) ==
    IF HasDraft(drafts, id) THEN drafts[CHOOSE k \in DOMAIN drafts : drafts[k].id = id]
    ELSE NoDraft

\* Object.keys(unsavedChanges)
KeysOf(drafts) == [k \in DOMAIN drafts |-> drafts[k].id]

\* unsavedChanges: { ...state.unsavedChanges, [id]: draft }
PutDraft(drafts, id, title, content) ==
    IF HasDraft(drafts, id)
    THEN [k \in DOMAIN drafts |->
            IF drafts[k].id = id THEN Draft(id, title, content) ELSE drafts[k]]
    ELSE Append(drafts, Draft(id, title, content))

\* getSelectedNote()?.id ?? null
SelectedId(coll, selected) == IF selected \in NoteIds(coll) THEN selected ELSE Null

getNoteById(coll, id) == IF id \in NoteIds(coll) THEN FindNote(coll, id) ELSE NoNote

getUnsavedChanges(st, id) == DraftOf(st.unsavedChanges, id)

recordUnsavedChanges(st, id, title, content) ==
    [st EXCEPT !.unsavedChanges = PutDraft(@, id, title, content), !.touched = TRUE]

clearUnsavedChanges(st, id) ==
    IF ~HasDraft(st.unsavedChanges, id) THEN st
    ELSE [st EXCEPT !.unsavedChanges = SelectSeq(@, LAMBDA draft : draft.id # id),
                    !.touched = TRUE]

\* A cancelAutosaveTimer that forgets the timer without clearTimeout.
cancelAutosaveTimer_NoClear(st) == [st EXCEPT !.timer = NoTimer]

\* if (autosaveTimerRef.current) { clearTimeout(...); autosaveTimerRef.current = null }
cancelAutosaveTimer(st) ==
    IF st.timer = NoTimer THEN st
    ELSE [st EXCEPT !.timeouts = @ \ {st.timer}, !.timer = NoTimer]

\* setTimeout returns a handle no pending timeout has.
NextHandle(pending) ==
    CHOOSE h \in 1..(Cardinality(pending) + 1) : \A t \in pending : t.handle # h

\* autosaveTimerRef.current = setTimeout(() => {...}, 2000), the callback
\* closing over noteId, titleValue and contentValue.
ArmTimer(st, noteId, titleValue, contentValue) ==
    [st EXCEPT !.timer = [noteId |-> noteId, title |-> titleValue,
                          content |-> contentValue, handle |-> NextHandle(st.timeouts)],
               !.timeouts = @ \cup {[noteId |-> noteId, title |-> titleValue,
                                     content |-> contentValue,
                                     handle |-> NextHandle(st.timeouts)]}]

\* setLastSavedAt(Date.now()); setSaveStatus('saved'); setSaveError(null)
MarkSaved(st) == [st EXCEPT !.saveStatus = "saved", !.saveError = Null]

\* What a call of the store's updateNote does when the storage behind the
\* persisted store refuses a write: it returns, or it throws with the notes
\* as they were, or it throws once the notes in memory have been replaced.
SaveOutcomes == {"returns", "throws before the write", "throws after the write"}

\* The outcome of the next updateNote call of the running callback: the
\* last of the chosen outcomes stands for every later call.
SaveOutcome(st) == IF st.outcomes = <<>> THEN "returns" ELSE Head(st.outcomes)

\* The store's updateNote(noteId, {title, content}), with the call noted.
SaveNote(st, id, title, content, now) ==
    [st EXCEPT !.notes = IF SaveOutcome(st) = "throws before the write" THEN @
                         ELSE updateNote(@, id, [title |-> title, content |-> content], now),
               !.saves = IF SaveOutcome(st) = "throws before the write" THEN @
                         ELSE @ \cup {Draft(id, title, content)},
               !.failed = IF SaveOutcome(st) = "returns" THEN @
                          ELSE @ \cup {Draft(id, title, content)},
               !.returned = IF SaveOutcome(st) = "returns"
                            THEN @ \cup {Draft(id, title, content)} ELSE @,
               !.outcomes = IF Len(@) <= 1 THEN @ ELSE Tail(@)]

\* setSaveStatus('error'); setSaveError(error.message)
MarkFailed(st) == [st EXCEPT !.saveStatus = "error", !.saveError = "Failed to save changes"]

\* A flushAutosave whose catch block drops the draft.
FlushWrite_DropsDraft(st, id, isCurrentNote, resolvedTitle, resolvedContent, now) ==
    IF isCurrentNote
    THEN MarkSaved(clearUnsavedChanges(
             SaveNote(st, id, resolvedTitle, resolvedContent, now), id))
    ELSE clearUnsavedChanges(SaveNote(st, id, resolvedTitle, resolvedContent, now), id)

\* flushAutosave, lines 132-159: the write, and the catch block when it throws.
FlushWrite(st, id, isCurrentNote, resolvedTitle, resolvedContent, now) ==
    IF SaveOutcome(st) = "returns"
    THEN IF isCurrentNote
         THEN MarkSaved(clearUnsavedChanges(
                  SaveNote(st, id, resolvedTitle, resolvedContent, now), id))
         ELSE clearUnsavedChanges(SaveNote(st, id, resolvedTitle, resolvedContent, now), id)
    ELSE IF isCurrentNote
         THEN recordUnsavedChanges(
                  MarkFailed(SaveNote(st, id, resolvedTitle, resolvedContent, now)),
                  id, resolvedTitle, resolvedContent)
         ELSE recordUnsavedChanges(SaveNote(st, id, resolvedTitle, resolvedContent, now),
                                   id, resolvedTitle, resolvedContent)

\* A flushAutosave that takes every draft for saved already.
FlushResolved_NoWrite(st, id, isCurrentNote, baselineNote, resolvedTitle, resolvedContent, now) ==
    IF isCurrentNote THEN MarkSaved(clearUnsavedChanges(st, id))
    ELSE clearUnsavedChanges(st, id)

\* flushAutosave, lines 116-144: nothing to write when the store's note has
\* the resolved title and content, else the write.
FlushResolved(st, id, isCurrentNote, baselineNote, resolvedTitle, resolvedContent, now) ==
    IF /\ baselineNote # NoNote
       /\ baselineNote.title = resolvedTitle
       /\ baselineNote.content = resolvedContent
    THEN IF isCurrentNote THEN MarkSaved(clearUnsavedChanges(st, id))
         ELSE clearUnsavedChanges(st, id)
    ELSE FlushWrite(st, id, isCurrentNote, resolvedTitle, resolvedContent, now)

\* A flush that writes the store's title back in place of the draft's.
ResolvedTitle_FromStore(st, pendingChanges, isCurrentNote, baselineNote) ==
    IF baselineNote = NoNote THEN pendingChanges.title ELSE baselineNote.title

\* pendingChanges.title ?? (isCurrentNote ? draftTitleRef.current : baselineNote?.title ?? '')
ResolvedTitle(st, pendingChanges, isCurrentNote, baselineNote) ==
    Coalesce(pendingChanges.title,
             IF isCurrentNote THEN st.draftTitle
             ELSE IF baselineNote = NoNote THEN "" ELSE baselineNote.title)

ResolvedContent(st, pendingChanges, isCurrentNote, baselineNote) ==
    CoalesceContent(pendingChanges.content,
             IF isCurrentNote THEN st.draftContent
             ELSE IF baselineNote = NoNote THEN EmptyString ELSE baselineNote.content)

\* flushAutosave, lines 92-114.
FlushPending(st, id, isCurrentNote, pendingChanges, baselineNote, now) ==
    IF pendingChanges = NoDraft THEN st
    ELSE IF baselineNote = NoNote /\ ~isCurrentNote THEN clearUnsavedChanges(st, id)
    ELSE FlushResolved(st, id, isCurrentNote, baselineNote,
                       ResolvedTitle(st, pendingChanges, isCurrentNote, baselineNote),
                       ResolvedContent(st, pendingChanges, isCurrentNote, baselineNote), now)

\* flushAutosave, lines 86-97.
FlushNote(st, id, isCurrentNote, now) ==
    FlushPending(IF isCurrentNote THEN cancelAutosaveTimer(st) ELSE st, id, isCurrentNote,
                 getUnsavedChanges(st, id), getNoteById(st.notes, id), now)

\* flushAutosave(targetNoteId) of a render whose selectedNoteId was
\* closureSelected; targetNoteId is Undefined when the caller gives none.
flushAutosave(st, closureSelected, targetNoteId, now) ==
    IF Coalesce(targetNoteId, closureSelected) = Null
    THEN IF targetNoteId = Undefined THEN cancelAutosaveTimer(st) ELSE st
    ELSE FlushNote(st, Coalesce(targetNoteId, closureSelected),
                   Coalesce(targetNoteId, closureSelected) = closureSelected, now)

\* Object.keys(unsavedChanges).forEach(noteId => noteId !== selectedNoteId && flushAutosave(noteId))
RECURSIVE FlushKeys(_, _, _, _, _)
FlushKeys(st, closureSelected, closureKeys, k, now) ==
    IF k > Len(closureKeys) THEN st
    ELSE FlushKeys(IF closureKeys[k] # closureSelected
                   THEN flushAutosave(st, closureSelected, closureKeys[k], now)
                   ELSE st,
                   closureSelected, closureKeys, k + 1, now)

\* A flushAllUnsaved that flushes the selected note alone.
flushAllUnsaved_SelectedOnly(st, closureSelected, closureKeys, now) ==
    flushAutosave(st, closureSelected, Undefined, now)

\* flushAllUnsaved of a render that saw closureSelected and closureKeys.
flushAllUnsaved(st, closureSelected, closureKeys, now) ==
    FlushKeys(flushAutosave(st, closureSelected, Undefined, now),
              closureSelected, closureKeys, 1, now)

\* A scheduleAutosave that shows 'saving' and sets no timeout.
ScheduleRecorded_NoTimer(st, noteId, titleValue, contentValue, currentNote) ==
    IF /\ currentNote # NoNote
       /\ currentNote.id = noteId
       /\ currentNote.title = titleValue
       /\ currentNote.content = contentValue
    THEN MarkSaved(clearUnsavedChanges(st, noteId))
    ELSE [st EXCEPT !.saveStatus = "saving", !.saveError = Null]

\* scheduleAutosave, lines 183-221, after the draft is recorded.
ScheduleRecorded(st, noteId, titleValue, contentValue, currentNote) ==
    IF /\ currentNote # NoNote
       /\ currentNote.id = noteId
       /\ currentNote.title = titleValue
       /\ currentNote.content = contentValue
    THEN MarkSaved(clearUnsavedChanges(st, noteId))
    ELSE ArmTimer([st EXCEPT !.saveStatus = "saving", !.saveError = Null],
                  noteId, titleValue, contentValue)

scheduleAutosave(st, noteId, titleValue, contentValue) ==
    ScheduleRecorded(
        [recordUnsavedChanges(cancelAutosaveTimer(st), noteId, titleValue, contentValue)
            EXCEPT !.edits = PutDraft(@, noteId, titleValue, contentValue)],
        noteId, titleValue, contentValue, getNoteById(st.notes, st.selectedNoteId))

\* A timer callback that writes and leaves the status as it was.
TimerCallback_KeepsStatus(st, noteId, titleValue, contentValue, now) ==
    [(IF SaveOutcome(st) = "returns"
      THEN clearUnsavedChanges(
               SaveNote(st, noteId, titleValue, contentValue, now), noteId)
      ELSE recordUnsavedChanges(
               SaveNote(st, noteId, titleValue, contentValue, now),
               noteId, titleValue, contentValue))
        EXCEPT !.timer = NoTimer]

\* The setTimeout callback of scheduleAutosave, lines 199-221.
TimerCallback(st, noteId, titleValue, contentValue, now) ==
    [(IF SaveOutcome(st) = "returns"
      THEN MarkSaved(clearUnsavedChanges(
               SaveNote(st, noteId, titleValue, contentValue, now), noteId))
      ELSE recordUnsavedChanges(
               MarkFailed(SaveNote(st, noteId, titleValue, contentValue, now)),
               noteId, titleValue, contentValue))
        EXCEPT !.timer = NoTimer]

\* The effect of lines 246-253.
PreviousNoteEffect(st, selected, now) ==
    [(IF st.previousNoteId # Null /\ st.previousNoteId # selected
      THEN flushAutosave(st, selected, st.previousNoteId, now)
      ELSE st)
        EXCEPT !.previousNoteId = selected]

\* The effect of lines 279-337, once a note is known to be selected.
LoadDrafts(st, currentNote, unsaved) ==
    IF currentNote = NoNote
    THEN [st EXCEPT !.draftTitle = "", !.draftContent = EmptyString,
                    !.saveStatus = "idle", !.saveError = Null]
    ELSE [st EXCEPT
            !.draftTitle = IF unsaved = NoDraft THEN currentNote.title
                           ELSE Coalesce(unsaved.title, currentNote.title),
            !.draftContent = IF unsaved = NoDraft THEN currentNote.content
                             ELSE CoalesceContent(unsaved.content, currentNote.content),
            !.saveStatus = IF unsaved = NoDraft THEN "saved" ELSE "error",
            !.saveError = IF unsaved = NoDraft THEN Null ELSE "Unsaved changes restored"]

SelectionEffect(st, selected) ==
    IF selected = Null
    THEN [cancelAutosaveTimer(st) EXCEPT !.draftTitle = "", !.draftContent = EmptyString,
                                         !.saveStatus = "idle", !.saveError = Null]
    ELSE LoadDrafts(cancelAutosaveTimer(st), getNoteById(st.notes, st.selectedNoteId),
                    getUnsavedChanges(st, selected))

\* A commit that runs the selection effect alone, flushing nothing.
RunEffects_SelectionOnly(st, closure, selected, now) ==
    IF selected = closure.noteId THEN st ELSE SelectionEffect(st, selected)

\* The passive effects of a commit, in the order React runs them: the
\* cleanup of the previous render's flush effect (lines 242-244), then the
\* effects whose dependencies changed.
RunEffects(st, closure, selected, now) ==
    IF selected = closure.noteId
    THEN flushAllUnsaved(st, closure.noteId, closure.keys, now)
    ELSE SelectionEffect(
             PreviousNoteEffect(flushAllUnsaved(st, closure.noteId, closure.keys, now),
                                selected, now),
             selected)

(***************************************************************************)
(* SpecAutosave: the App over a persisted store of two notes; it mounts,   *)
(* the user edits the title and the content of the selected note, selects  *)
(* and deletes notes, the debounce timer fires, the page is hidden or      *)
(* unloaded, the App unmounts; each save returns or throws.                *)
(***************************************************************************)
MaxSaves == 2        \* outcomes chosen for the updateNote calls of one callback

SaveOutcomeSeqs == [1..MaxSaves -> SaveOutcomes]

AutosaveIds == LinkIds
AutosaveTitles == {"Untitled Note", "Renamed"}
AutosaveContents == {PlainDoc(TRUE), OneLinkDoc(IdPool[2], "Foo")}

Snapshot ==
    [notes |-> notes, selectedNoteId |-> selectedNoteId, saveStatus |-> saveStatus,
     saveError |-> saveError, unsavedChanges |-> unsavedChanges, touched |-> rendered.stale,
     draftTitle |-> draftTitleRef, draftContent |-> draftContentRef,
     timer |-> autosaveTimerRef, previousNoteId |-> previousNoteIdRef,
     saves |-> {}, failed |-> {}, returned |-> {}, outcomes |-> <<>>,
     edits |-> latestEdit,
     timeouts |-> timeouts]

\* The state a callback starts from, with the outcomes of its saves.
SnapshotWith(outcomes) == [Snapshot EXCEPT !.outcomes = outcomes]

\* The state a callback leaves, and the closure of the committed render.
Commit(name, st, closure, stillMounted) ==
    /\ notes' = st.notes
    /\ selectedNoteId' = st.selectedNoteId
    /\ saveStatus' = st.saveStatus
    /\ saveError' = st.saveError
    /\ unsavedChanges' = st.unsavedChanges
    /\ draftTitleRef' = st.draftTitle
    /\ draftContentRef' = st.draftContent
    /\ autosaveTimerRef' = st.timer
    /\ previousNoteIdRef' = st.previousNoteId
    /\ rendered' = [closure EXCEPT !.stale = st.touched]
    /\ mounted' = stillMounted
    /\ latestEdit' = st.edits
    /\ timeouts' = st.timeouts
    /\ lastOp' = [op |-> name, saves |-> st.saves, failed |-> st.failed,
                  returned |-> st.returned]
    /\ lastResult' = Void
    /\ UNCHANGED <<db, rcVars>>

\* A commit is due: the store has replaced unsavedChanges or the selected
\* note is not the one the last render saw.
RenderPending == rendered.stale \/ SelectedId(notes, selectedNoteId) # rendered.noteId

\* The effects of the first commit, lines 246-253 and 279-337.
Mount(now) ==
    /\ ~mounted
    /\ rendered = NotRendered
    /\ Commit("mount",
              SelectionEffect(
                  PreviousNoteEffect([Snapshot EXCEPT !.touched = FALSE],
                                     SelectedId(notes, selectedNoteId), now),
                  SelectedId(notes, selectedNoteId)),
              [noteId |-> SelectedId(notes, selectedNoteId),
               keys |-> KeysOf(unsavedChanges), stale |-> FALSE],
              TRUE)

Render(now, outcomes) ==
    /\ mounted
    /\ RenderPending
    /\ Commit("render",
              RunEffects([SnapshotWith(outcomes) EXCEPT !.touched = FALSE], rendered,
                         SelectedId(notes, selectedNoteId), now),
              [noteId |-> SelectedId(notes, selectedNoteId),
               keys |-> KeysOf(unsavedChanges), stale |-> FALSE],
              TRUE)

\* handleTitleChange
EditTitle(value) ==
    /\ mounted
    /\ ~RenderPending
    /\ rendered.noteId # Null
    /\ Commit("handleTitleChange",
              scheduleAutosave([Snapshot EXCEPT !.draftTitle = value],
                               rendered.noteId, value, draftContentRef),
              rendered, TRUE)

\* handleContentChange
EditContent(content) ==
    /\ mounted
    /\ ~RenderPending
    /\ rendered.noteId # Null
    /\ Commit("handleContentChange",
              scheduleAutosave([Snapshot EXCEPT !.draftContent = content],
                               rendered.noteId, draftTitleRef, content),
              rendered, TRUE)

\* A click on a note of the sidebar.
ClickNote(id) ==
    /\ mounted
    /\ ~RenderPending
    /\ id \in NoteIds(notes)
    /\ SelectNote(id)

\* The store's deleteNote, called for a note of the sidebar.
RemoveNote(id) ==
    /\ mounted
    /\ ~RenderPending
    /\ id \in NoteIds(notes)
    /\ DeleteNote(id)

\* A pending timeout comes due and the window runs its callback.
TimerFires(now, outcomes) ==
    \E timeout \in timeouts :
        Commit("timer",
               TimerCallback([SnapshotWith(outcomes) EXCEPT !.timeouts = @ \ {timeout}],
                             timeout.noteId, timeout.title, timeout.content, now),
               rendered, mounted)

\* handleVisibilityChange with the page hidden, handleBeforeUnload.
PageHidden(now, outcomes) ==
    /\ mounted
    /\ Commit("flushAllUnsaved",
              flushAllUnsaved(SnapshotWith(outcomes), rendered.noteId, rendered.keys, now),
              rendered, TRUE)

Unmount(now, outcomes) ==
    /\ mounted
    /\ Commit("unmount",
              flushAllUnsaved(SnapshotWith(outcomes), rendered.noteId, rendered.keys, now),
              rendered, FALSE)

\* What the persisted store restores: two notes, none or the first selected,
\* and for the selected note the draft of an edit the last session recorded
\* and did not save.
RestoredDrafts(selected) ==
    IF selected = Null THEN {<<>>}
    ELSE {<<>>, <<Draft(selected, "Renamed", PlainDoc(TRUE))>>}

InitAutosave ==
    /\ notes = reconcileNoteLinks(<<NewNote(IdPool[1], 0, 1), NewNote(IdPool[2], 1, 1)>>)
    /\ selectedNoteId \in {Null, IdPool[1]}
    /\ unsavedChanges \in RestoredDrafts(selectedNoteId)
    /\ db = {}
    /\ lastOp = Idle
    /\ lastResult = Void
    /\ rcIn = <<>>
    /\ rcOut = <<>>
    /\ rcAgain = <<>>
    /\ rcPc = 0
    /\ saveStatus = IF unsavedChanges = <<>> THEN "idle" ELSE "saving"
    /\ saveError = Null
    /\ draftTitleRef = ""
    /\ draftContentRef = EmptyString
    /\ autosaveTimerRef = NoTimer
    /\ previousNoteIdRef = Null
    /\ rendered = NotRendered
    /\ mounted = FALSE
    /\ latestEdit = unsavedChanges
    /\ timeouts = {}

NextAutosave ==
    \/ \E now \in Times : Mount(now)
    \/ \E now \in Times : \E outcomes \in SaveOutcomeSeqs : Render(now, outcomes)
    \/ \E value \in AutosaveTitles : EditTitle(value)
    \/ \E content \in AutosaveContents : EditContent(content)
    \/ \E id \in AutosaveIds : ClickNote(id)
    \/ \E id \in AutosaveIds : RemoveNote(id)
    \/ \E now \in Times : \E outcomes \in SaveOutcomeSeqs : TimerFires(now, outcomes)
    \/ \E now \in Times : \E outcomes \in SaveOutcomeSeqs : PageHidden(now, outcomes)
    \/ \E now \in Times : \E outcomes \in SaveOutcomeSeqs : Unmount(now, outcomes)

SpecAutosave == InitAutosave /\ [][NextAutosave]_vars

\* The writes of the last step.
SavesOf(op) == IF "saves" \in DOMAIN op THEN op.saves ELSE {}

\* C20: a save applied to note A carries A's most recent recorded edit: no
\* timer callback and no flush writes to the store a title or content for A
\* other than the ones last handed to scheduleAutosave for A, under every
\* interleaving of edits, timer, flushes, note switches and unmount.
C20_SaveCarriesLatestEdit ==
    \A save \in SavesOf(lastOp) : DraftOf(latestEdit, save.id) = save

\* A timer write and a flush write, each after the note was edited twice.
C20_Witness ==
    /\ lastOp.op \in {"timer", "render", "flushAllUnsaved", "unmount"}
    /\ \E save \in SavesOf(lastOp) :
          /\ save.title = "Renamed"
          /\ save.content = OneLinkDoc(IdPool[2], "Foo")

\* The pending timeouts once scheduleAutosave has recorded an edit of noteId.
AfterEdit(noteId, titleValue, contentValue) ==
    scheduleAutosave(Snapshot, noteId, titleValue, contentValue)

\* C21: at most one autosave debounce timer is pending at any time, and it
\* is the one autosaveTimerRef holds; an edit (scheduleAutosave) made while
\* a timer is pending leaves no timer but the one it arms, so a superseded
\* save request cannot fire.
C21_OneTimerPending ==
    /\ Cardinality(timeouts) <= 1
    /\ timeouts \subseteq {autosaveTimerRef}
    /\ \A noteId \in AutosaveIds : \A titleValue \in AutosaveTitles :
          \A contentValue \in AutosaveContents :
             /\ Cardinality(AfterEdit(noteId, titleValue, contentValue).timeouts) <= 1
             /\ \A timeout \in AfterEdit(noteId, titleValue, contentValue).timeouts :
                   /\ timeout.noteId = noteId
                   /\ timeout.title = titleValue
                   /\ timeout.content = contentValue

\* A timer is pending for an edit of a title, which a further edit supersedes.
C21_Witness ==
    /\ lastOp.op = "handleTitleChange"
    /\ \E timeout \in timeouts : timeout.title = "Renamed" /\ autosaveTimerRef = timeout

\* The step is the commit that follows a change of the selected note from id.
SwitchFrom(id) ==
    /\ lastOp'.op = "render"
    /\ rendered.noteId = id
    /\ rendered'.noteId # id

\* The commit of a change of the selected note to selected, were it made in
\* the current state, leaves no timeout pending.
SwitchCancelsTimer ==
    (mounted /\ rendered.noteId \in NoteIds(notes)) =>
        \A selected \in (NoteIds(notes) \cup {Null}) \ {rendered.noteId} :
           \A now \in Times :
              RunEffects([Snapshot EXCEPT !.selectedNoteId = selected], rendered,
                         selected, now).timeouts = {}

FlushedAll ==
    /\ lastOp'.op \in {"flushAllUnsaved", "unmount"}
    /\ lastOp'.failed = {}

\* C23: when flushAllUnsaved runs (unmount, beforeunload, visibility hidden)
\* and no save throws, afterwards unsavedChanges is empty, no debounce timer
\* is pending, and every draft whose note is still in the store has been
\* handed to the store's updateNote, or the note had the draft's title and
\* content already.
C23_FlushAllSavesEverything ==
    [][FlushedAll =>
          /\ unsavedChanges' = <<>>
          /\ timeouts' = {}
          /\ autosaveTimerRef' = NoTimer
          /\ \A k \in DOMAIN unsavedChanges :
                unsavedChanges[k].id \in NoteIds(notes')
                   => \/ unsavedChanges[k] \in lastOp'.saves
                      \/ /\ getNoteById(notes', unsavedChanges[k].id).title =
                               unsavedChanges[k].title
                         /\ getNoteById(notes', unsavedChanges[k].id).content =
                               unsavedChanges[k].content]_vars

\* flushAllUnsaved has written the draft of a note that is not the selected
\* one and left no draft.
C23_Witness ==
    /\ lastOp.op = "flushAllUnsaved"
    /\ lastOp.failed = {}
    /\ unsavedChanges = <<>>
    /\ \E save \in lastOp.saves :
          /\ save.id # rendered.noteId
          /\ getNoteById(notes, save.id).title = save.title

\* The store holds the title and content of a save, or a later updateNote
\* call of the same callback for the same note returned.
SavedSince(save) ==
    \/ \E later \in lastOp.returned : later.id = save.id
    \/ /\ save.id \in NoteIds(notes)
       /\ getNoteById(notes, save.id).title = save.title
       /\ getNoteById(notes, save.id).content = save.content

HasLinkRange(content) ==
    \E b \in DOMAIN LinkRangesOf(content) : LinkRangesOf(content)[b] # <<>>

\* C25: reconcile gives a note a new content string only if the note has a
\* NOTE_LINK range to rewrite; a note with parseable content and no
\* NOTE_LINK range keeps its content string exactly as stored.
C25_ContentOnlyIfRewritten ==
    rcPc >= 1 =>
        \A i \in DOMAIN rcIn :
           rcOut[i].content # rcIn[i].content => HasLinkRange(rcIn[i].content)

\* The fields of a note that reconcile has no business with.
FrameOf(note) ==
    [id |-> note.id, title |-> note.title, createdAt |-> note.createdAt,
     updatedAt |-> note.updatedAt, parentId |-> note.parentId, order |-> note.order,
     embeds |-> note.embeds]

\* C26: reconcile returns as many notes as it was given, in the same order,
\* each with the id, title, createdAt, updatedAt, parentId, order and embeds
\* it had, and a note whose outbound, inbound and content come out as they
\* were stored is returned exactly as given.
C26_ReconcileFrame ==
    rcPc >= 1 =>
        /\ Len(rcOut) = Len(rcIn)
        /\ \A i \in DOMAIN rcIn :
              /\ FrameOf(rcOut[i]) = FrameOf(rcIn[i])
              /\ DOMAIN rcOut[i] = DOMAIN rcIn[i]
              /\ (/\ rcOut[i].links = rcIn[i].links
                  /\ rcOut[i].content = rcIn[i].content) => rcOut[i] = rcIn[i]

\* Of two notes, reconcile changed the links and the content of one and
\* returned the other as given.
C26_Witness ==
    /\ rcPc >= 1
    /\ Len(rcIn) = 2
    /\ rcOut[1].links # rcIn[1].links
    /\ rcOut[1].content # rcIn[1].content
    /\ rcOut[2] = rcIn[2]

\* The content string is empty, is no JSON text, or is JSON that is no
\* structured document.
Unparsable(content) ==
    \/ parseRawContent(content) = ParsedNull
    \/ convertFromRawThrows(parseRawContent(content))

\* The other notes of the collection with a NOTE_LINK range on the note.
LinkingNotes(coll, i) ==
    {coll[j].id : j \in {j \in DOMAIN coll : j # i /\ coll[i].id \in LinkTargetsOf(coll[j].content)}}

\* C27: for a note whose content is empty, not valid JSON or not a
\* structured document, reconcile completes for the whole collection, the
\* analysis of the note has no outbound id and the stored string as content,
\* the returned note has its content string unchanged and no note of the
\* collection as outbound, and its inbound notes are the other notes that
\* link to it.
C27_UnparsableContent ==
    rcPc >= 1 =>
        /\ Len(rcOut) = Len(rcIn)
        /\ \A i \in DOMAIN rcIn :
              Unparsable(rcIn[i].content) =>
                 /\ analyzeNoteContent(rcIn[i], BuildTitleMap(rcIn)).outbound = <<>>
                 /\ analyzeNoteContent(rcIn[i], BuildTitleMap(rcIn)).content = rcIn[i].content
                 /\ rcOut[i].content = rcIn[i].content
                 /\ Outbound(rcOut[i]) \cap NoteIds(rcIn) = {}
                 /\ Inbound(rcOut[i]) \cap NoteIds(rcIn) = LinkingNotes(rcIn, i)

\* A note of plain words that the other note links to: it comes back with
\* its content, no outbound and the other note as inbound.
C27_Witness ==
    /\ rcPc >= 1
    /\ Len(rcIn) = 2
    /\ rcIn[1].content = StringContent("plain words")
    /\ rcOut[1].content = StringContent("plain words")
    /\ rcOut[1].links = [outbound |-> <<>>, inbound |-> <<IdPool[2]>>]
    /\ rcOut[2].links.outbound = <<IdPool[1]>>

(***************************************************************************)
(* LinkService.getBacklinks (src/src/services/link-service.ts 106-133,     *)
(* 201-239, 305-311).                                                      *)
(***************************************************************************)
ExcerptContext == 40

\* String.prototype.trim(), for the blanks of the model's texts.
RECURSIVE Trim(_)
Trim(str) ==
    IF Len(str) = 0 THEN str
    ELSE IF SubSeq(str, 1, 1) = " " THEN Trim(SubSeq(str, 2, Len(str)))
    ELSE IF SubSeq(str, Len(str), Len(str)) = " " THEN Trim(SubSeq(str, 1, Len(str) - 1))
    ELSE str

\* blockText.slice(contextStart, contextEnd).trim()
Snippet(blockText, range) ==
    Trim(SubSeq(blockText, Max(0, range.start - ExcerptContext) + 1,
                Min(Len(blockText), range.end + ExcerptContext)))

gatherLinkExcerpts(contentState, blockKey, targetNoteId) ==
    LET Matches(range) ==
            sanitizeLinkId(contentState.entities[range.entityKey].noteId) = targetNoteId
        matching == SelectSeq(findLinkEntityRanges(contentState, blockKey), Matches)
    IN  SelectSeq([r \in DOMAIN matching |->
                      Snippet(contentState.blocks[blockKey].text, matching[r])],
                  LAMBDA snippet : Len(snippet) > 0)

\* excerpts.push(...blockExcerpts) over the blocks from blockKey on.
RECURSIVE ExcerptsFrom(_, _, _)
ExcerptsFrom(contentState, blockKey, targetNoteId) ==
    IF blockKey > Len(contentState.blocks) THEN <<>>
    ELSE gatherLinkExcerpts(contentState, blockKey, targetNoteId)
         \o ExcerptsFrom(contentState, blockKey + 1, targetNoteId)

NoEntry == [sourceId |-> Null]

BacklinkEntry(note, excerpts) ==
    IF excerpts = <<>> THEN NoEntry
    ELSE [sourceId |-> note.id, sourceTitle |-> note.title, excerpts |-> excerpts]

\* One turn of the loop of extractBacklinks without the test on note.id.
EntryOf_NoSelfCheck(note, targetNoteId) ==
    IF parseRawContent(note.content) = ParsedNull THEN NoEntry
    ELSE IF convertFromRawThrows(parseRawContent(note.content)) THEN NoEntry
    ELSE BacklinkEntry(note, ExcerptsFrom(convertFromRaw(parseRawContent(note.content)),
                                          1, targetNoteId))

\* One turn of the loop of extractBacklinks: the entry pushed for a note,
\* NoEntry when the loop continues without one.
EntryOf(note, targetNoteId) ==
    IF note.id = targetNoteId THEN NoEntry
    ELSE IF parseRawContent(note.content) = ParsedNull THEN NoEntry
    ELSE IF convertFromRawThrows(parseRawContent(note.content)) THEN NoEntry
    ELSE BacklinkEntry(note, ExcerptsFrom(convertFromRaw(parseRawContent(note.content)),
                                          1, targetNoteId))

\* A scan that ends at the first note it cannot parse.
RECURSIVE ScanNotes_StopAtUnparsable(_, _, _)
ScanNotes_StopAtUnparsable(coll, i, targetNoteId) ==
    IF i > Len(coll) THEN <<>>
    ELSE IF coll[i].id # targetNoteId
            /\ (\/ parseRawContent(coll[i].content) = ParsedNull
                \/ convertFromRawThrows(parseRawContent(coll[i].content)))
    THEN <<>>
    ELSE IF EntryOf(coll[i], targetNoteId) = NoEntry
    THEN ScanNotes_StopAtUnparsable(coll, i + 1, targetNoteId)
    ELSE <<EntryOf(coll[i], targetNoteId)>>
         \o ScanNotes_StopAtUnparsable(coll, i + 1, targetNoteId)

\* for (const note of notes) of extractBacklinks, from note i on.
RECURSIVE ScanNotes(_, _, _)
ScanNotes(coll, i, targetNoteId) ==
    IF i > Len(coll) THEN <<>>
    ELSE IF EntryOf(coll[i], targetNoteId) = NoEntry
    THEN ScanNotes(coll, i + 1, targetNoteId)
    ELSE <<EntryOf(coll[i], targetNoteId)>> \o ScanNotes(coll, i + 1, targetNoteId)

extractBacklinks(targetNoteId, coll) == ScanNotes(coll, 1, targetNoteId)

\* if (!noteId) return [];
getBacklinks(noteId, coll) ==
    IF noteId = "" \/ noteId = Null \/ noteId = Undefined THEN <<>>
    ELSE extractBacklinks(noteId, coll)

(***************************************************************************)
(* SpecBacklinks: getBacklinks over a collection of up to three notes, as  *)
(* imported and as the store holds it after reconcileNoteLinks.            *)
(***************************************************************************)
MaxBacklinkNotes == 3

BacklinkTitles == <<"Foo", "Bar", "Untitled Note">>

BacklinkContents ==
    {StringContent(str) : str \in {"", "plain words", "{}"}}
    \cup {PlainDoc(TRUE), SharedKeyDoc(IdPool[1]), TwoLinkDoc(IdPool[1], IdPool[2]),
          MixedDoc(IdPool[1])}
    \cup {OneLinkDoc(t, "Foo") : t \in {IdPool[i] : i \in 1..MaxBacklinkNotes} \cup {DeletedId}}

BacklinkImports ==
    UNION {[1..n -> BacklinkContents] : n \in 0..MaxBacklinkNotes}

\* The inbound arrays a backup can hold for a note: none, and the one
\* empty string that parseLinkArray lets through.
BacklinkStored == {<<>>, <<"">>}

BacklinkNotes(contents, inbound) ==
    ToArray([i \in DOMAIN contents |->
        Note(IdPool[i], BacklinkTitles[i], contents[i], Undefined, i - 1, <<>>, inbound, 0)])

BacklinkTargets == {IdPool[i] : i \in 1..MaxBacklinkNotes} \cup {DeletedId, ""}

InitBacklinks ==
    /\ \E contents \in BacklinkImports, inbound \in BacklinkStored :
          notes \in {BacklinkNotes(contents, inbound),
                     reconcileNoteLinks(BacklinkNotes(contents, inbound))}
    /\ selectedNoteId = Null
    /\ db = {}
    /\ lastOp = Idle
    /\ lastResult = Void
    /\ rcIn = <<>>
    /\ rcOut = <<>>
    /\ rcAgain = <<>>
    /\ rcPc = 0
    /\ InitApp

GetBacklinks(noteId) ==
    /\ lastOp' = [op |-> "getBacklinks", id |-> noteId,
                  entries |-> getBacklinks(noteId, notes)]
    /\ UNCHANGED <<notes, selectedNoteId, db, lastResult, rcVars, appVars>>

NextBacklinks == \E noteId \in BacklinkTargets : GetBacklinks(noteId)

SpecBacklinks == InitBacklinks /\ [][NextBacklinks]_vars

\* The notes other than the target with a NOTE_LINK range on the target,
\* in the order of the collection.
LinkSources(coll, targetId) ==
    SelectSeq(coll, LAMBDA note :
        note.id # targetId /\ targetId \in LinkTargetsOf(note.content))

C29_UnparsableSkipped ==
    (lastOp.op = "getBacklinks" /\ lastOp.id # "") =>
        \A i \in DOMAIN notes :
           Unparsable(notes[i].content) =>
              /\ \A k \in DOMAIN lastOp.entries : lastOp.entries[k].sourceId # notes[i].id
              /\ \A j \in DOMAIN notes \ {i} :
                    (/\ notes[j].id # lastOp.id
                     /\ lastOp.id \in LinkTargetsOf(notes[j].content))
                       => \E k \in DOMAIN lastOp.entries :
                             lastOp.entries[k].sourceId = notes[j].id

\* The second of three notes cannot be parsed; the first and the third link
\* to the target and both are returned.
C29_Witness ==
    /\ lastOp.op = "getBacklinks"
    /\ lastOp.id = DeletedId
    /\ Len(notes) = 3
    /\ notes[2].content = StringContent("{}")
    /\ Len(lastOp.entries) = 2
    /\ lastOp.entries[1].sourceId = IdPool[1]
    /\ lastOp.entries[2].sourceId = IdPool[3]

(***************************************************************************)
(* markdownToRawContent: parseMarkdownLine (src/src/utils/markdown.ts      *)
(* 197-339).  Strings are indexed from 0 as in JavaScript.                 *)
(***************************************************************************)
\* text[i]
CharAt(text, i) == IF i >= 0 /\ i < Len(text) THEN SubSeq(text, i + 1, i + 1) ELSE ""

\* An index of String.prototype.slice: negative counts from the end, and
\* the result is clamped to the string.
SliceIndex(text, i) == IF i < 0 THEN Max(Len(text) + i, 0) ELSE Min(i, Len(text))

\* text.slice(start, end)
Slice(text, start, end) ==
    IF SliceIndex(text, start) >= SliceIndex(text, end) THEN ""
    ELSE SubSeq(text, SliceIndex(text, start) + 1, SliceIndex(text, end))

\* text.slice(start)
SliceFrom(text, start) == Slice(text, start, Len(text))

\* text.startsWith(prefix)
StartsWith(text, prefix) == Slice(text, 0, Len(prefix)) = prefix

\* The first index from "from" on where text has the character, -1 for none.
FirstAt(text, char, from) ==
    IF \E p \in from..(Len(text) - 1) : CharAt(text, p) = char
    THEN CHOOSE p \in from..(Len(text) - 1) :
            /\ CharAt(text, p) = char
            /\ \A q \in from..(p - 1) : CharAt(text, q) # char
    ELSE -1

NoMatch == [index |-> -1]

\* A match at index i of  d ([^c]+) d  where the delimiter d is the
\* character c repeated width times: the patterns of bold (two asterisks),
\* italic (one asterisk) and code (one grave accent).
StyleMatchAt(text, i, char, width) ==
    LET close == FirstAt(text, char, i + width)
    IN  IF /\ \A k \in 0..(width - 1) : CharAt(text, i + k) = char
           /\ close > i + width
           /\ \A k \in 0..(width - 1) : CharAt(text, close + k) = char
        THEN [index |-> i, length |-> close + width - i,
              inner |-> Slice(text, i + width, close), url |-> ""]
        ELSE NoMatch

\* A match at index i of /\[([^\]]+)\]\(([^)]+)\)/.
LinkMatchAt(text, i) ==
    LET close == FirstAt(text, "]", i + 1)
        endOf == FirstAt(text, ")", close + 2)
    IN  IF /\ CharAt(text, i) = "["
           /\ close > i + 1
           /\ CharAt(text, close + 1) = "("
           /\ endOf > close + 2
        THEN [index |-> i, length |-> endOf + 1 - i,
              inner |-> Slice(text, i + 1, close), url |-> Slice(text, close + 2, endOf)]
        ELSE NoMatch

\* The delimiter of inline code.  A string of this module cannot hold the
\* grave accent, the apostrophe stands for it: no pattern of
\* parseMarkdownLine names the apostrophe.
Backtick == "'"

\* The match of a pattern at index i: "LINK" names the link pattern, a
\* style its delimiter.
MatchAt(text, i, pattern) ==
    IF pattern = "LINK" THEN LinkMatchAt(text, i)
    ELSE IF pattern = "BOLD" THEN StyleMatchAt(text, i, "*", 2)
    ELSE IF pattern = "ITALIC" THEN StyleMatchAt(text, i, "*", 1)
    ELSE StyleMatchAt(text, i, Backtick, 1)

\* RegExp.prototype.exec of a global pattern: the leftmost match that starts
\* at lastIndex or later, null for none.
RegExpExec(text, lastIndex, pattern) ==
    IF \E i \in lastIndex..(Len(text) - 1) : MatchAt(text, i, pattern) # NoMatch
    THEN MatchAt(text,
                 CHOOSE i \in lastIndex..(Len(text) - 1) :
                    /\ MatchAt(text, i, pattern) # NoMatch
                    /\ \A j \in lastIndex..(i - 1) : MatchAt(text, j, pattern) = NoMatch,
                 pattern)
    ELSE NoMatch

\* The body of a while loop of parseMarkdownLine for one match: the range
\* pushed (with the text the match captured) and the text with the match
\* replaced by what it captured.
Replaced(acc, match, offset, pattern) ==
    [text |-> Slice(acc.text, 0, match.index - offset) \o match.inner
              \o SliceFrom(acc.text, match.index - offset + match.length),
     ranges |-> Append(acc.ranges,
                       [offset |-> match.index - offset, length |-> Len(match.inner),
                        style |-> pattern, inner |-> match.inner, url |-> match.url])]

\* while ((match = regex.exec(text)) !== null) { ... }: the pattern keeps
\* its lastIndex while text is replaced, and offset grows by what each
\* match removed.
RECURSIVE ParseSpans(_, _, _, _)
RECURSIVE ParseMatch(_, _, _, _)
ParseSpans(acc, lastIndex, offset, pattern) ==
    ParseMatch(acc, RegExpExec(acc.text, lastIndex, pattern), offset, pattern)

\* One turn of the loop with what exec returned.
ParseMatch(acc, match, offset, pattern) ==
    IF match = NoMatch THEN acc
    ELSE ParseSpans(Replaced(acc, match, offset, pattern),
                    match.index + match.length,
                    offset + match.length - Len(match.inner),
                    pattern)

Digits == {"0", "1", "2", "3", "4", "5", "6", "7", "8", "9"}

\* The length of the match of /^\d+\.\s/, 0 for none.
OrderedPrefix(text) ==
    IF \E n \in 1..Len(text) :
          /\ \A k \in 0..(n - 1) : CharAt(text, k) \in Digits
          /\ CharAt(text, n) = "."
          /\ CharAt(text, n + 1) = " "
    THEN 2 + CHOOSE n \in 1..Len(text) :
                /\ \A k \in 0..(n - 1) : CharAt(text, k) \in Digits
                /\ CharAt(text, n) = "."
    ELSE 0

\* The block type of a line and the length of the prefix that names it.
BlockPrefix(text) ==
    IF StartsWith(text, "# ") THEN [type |-> "header-one", length |-> 2]
    ELSE IF StartsWith(text, "## ") THEN [type |-> "header-two", length |-> 3]
    ELSE IF StartsWith(text, "### ") THEN [type |-> "header-three", length |-> 4]
    ELSE IF StartsWith(text, "#### ") THEN [type |-> "header-four", length |-> 5]
    ELSE IF StartsWith(text, "##### ") THEN [type |-> "header-five", length |-> 6]
    ELSE IF StartsWith(text, "###### ") THEN [type |-> "header-six", length |-> 7]
    ELSE IF StartsWith(text, "> ") THEN [type |-> "blockquote", length |-> 2]
    ELSE IF StartsWith(text, "- ") \/ StartsWith(text, "* ")
         THEN [type |-> "unordered-list-item", length |-> 2]
    ELSE IF OrderedPrefix(text) > 0
         THEN [type |-> "ordered-list-item", length |-> OrderedPrefix(text)]
    ELSE [type |-> "unstyled", length |-> 0]

\* The four loops of parseMarkdownLine in their order: links, bold, italic,
\* code.
InlineSpans(text) ==
    ParseSpans(ParseSpans(ParseSpans(ParseSpans([text |-> text, ranges |-> <<>>],
                                                0, 0, "LINK"),
                                     0, 0, "BOLD"),
                          0, 0, "ITALIC"),
               0, 0, "CODE")

\* The block returned for a block type and the text and ranges parsed.
ParsedBlock(type, parsed) == [type |-> type, text |-> parsed.text, ranges |-> parsed.ranges]

\* The line parsed with its block prefix known.
ParseAfterPrefix(line, prefix) ==
    ParsedBlock(prefix.type, InlineSpans(SliceFrom(line, prefix.length)))

parseMarkdownLine(line) == ParseAfterPrefix(line, BlockPrefix(line))

\* The delimiter of a fenced code block.
Fence == Backtick \o Backtick \o Backtick

\* markdown.split('\n')
RECURSIVE SplitLines(_)
SplitLines(markdown) ==
    IF FirstAt(markdown, "\n", 0) = -1 THEN <<markdown>>
    ELSE <<Slice(markdown, 0, FirstAt(markdown, "\n", 0))>>
         \o SplitLines(SliceFrom(markdown, FirstAt(markdown, "\n", 0) + 1))

\* arr.join(separator)
RECURSIVE JoinWith(_, _)
JoinWith(arr, separator) ==
    IF arr = <<>> THEN ""
    ELSE IF Len(arr) = 1 THEN arr[1]
    ELSE arr[1] \o separator \o JoinWith(Tail(arr), separator)

\* The index of the line that closes the fence opened at line i, one past
\* the last line for none.
FenceEnd(lines, i) ==
    IF \E j \in (i + 1)..Len(lines) : StartsWith(lines[j], Fence)
    THEN CHOOSE j \in (i + 1)..Len(lines) :
            /\ StartsWith(lines[j], Fence)
            /\ \A k \in (i + 1)..(j - 1) : ~StartsWith(lines[k], Fence)
    ELSE Len(lines) + 1

\* The loop of markdownToRawContent over the lines: blank lines are
\* skipped, a fence gathers the lines up to its end, any other line is
\* parsed.
RECURSIVE ParseLines(_, _, _)
ParseLines(lines, i, blocks) ==
    IF i > Len(lines) THEN blocks
    ELSE IF IsWhitespaceOnly(lines[i]) THEN ParseLines(lines, i + 1, blocks)
    ELSE IF StartsWith(lines[i], Fence)
    THEN ParseLines(lines, Min(FenceEnd(lines, i) + 1, Len(lines) + 1),
                    Append(blocks,
                           [type |-> "code-block",
                            text |-> JoinWith(SubSeq(lines, i + 1, FenceEnd(lines, i) - 1), "\n"),
                            ranges |-> <<>>]))
    ELSE ParseLines(lines, i + 1, Append(blocks, parseMarkdownLine(lines[i])))

\* The blocks of the raw content; the url of a link range is the url of its
\* entity in the entityMap, every link having an entity of its own.
DefaultBlocks(blocks) ==
    IF blocks = <<>> THEN <<[type |-> "unstyled", text |-> "", ranges |-> <<>>]>> ELSE blocks

markdownToRawContent(markdown) == DefaultBlocks(ParseLines(SplitLines(markdown), 1, <<>>))

\* [...inlineStyles, ...entityRanges]
AllRanges(block) ==
    SelectSeq(block.ranges, LAMBDA range : range.style # "LINK")
    \o SelectSeq(block.ranges, LAMBDA range : range.style = "LINK")

\* .sort((a, b) => b.offset - a.offset)
DescendingOffset(range) == 0 - range.offset

\* The text a range selects, as Markdown writes it.
Formatted(range, selectedText) ==
    IF range.style = "BOLD" THEN "**" \o selectedText \o "**"
    ELSE IF range.style = "ITALIC" THEN "*" \o selectedText \o "*"
    ELSE IF range.style = "CODE" THEN Backtick \o selectedText \o Backtick
    ELSE IF range.style = "UNDERLINE" THEN "<u>" \o selectedText \o "</u>"
    ELSE IF range.style = "LINK" THEN "[" \o selectedText \o "](" \o range.url \o ")"
    ELSE selectedText

\* for (const range of allRanges) { ... }: the formatting applied from
\* right to left.
RECURSIVE ApplyRanges(_, _)
ApplyRanges(text, ranges) ==
    IF ranges = <<>> THEN text
    ELSE ApplyRanges(
             Slice(text, 0, Head(ranges).offset)
                \o Formatted(Head(ranges),
                             Slice(text, Head(ranges).offset,
                                   Head(ranges).offset + Head(ranges).length))
                \o SliceFrom(text, Head(ranges).offset + Head(ranges).length),
             Tail(ranges))

\* switch (block.type)
BlockMarkdown(type, text) ==
    IF type = "header-one" THEN "# " \o text
    ELSE IF type = "header-two" THEN "## " \o text
    ELSE IF type = "header-three" THEN "### " \o text
    ELSE IF type = "header-four" THEN "#### " \o text
    ELSE IF type = "header-five" THEN "##### " \o text
    ELSE IF type = "header-six" THEN "###### " \o text
    ELSE IF type = "blockquote" THEN "> " \o text
    ELSE IF type = "code-block" THEN Fence \o "\n" \o text \o "\n" \o Fence
    ELSE IF type = "unordered-list-item" THEN "- " \o text
    ELSE IF type = "ordered-list-item" THEN "1. " \o text
    ELSE text

rawContentToMarkdown(blocks) ==
    JoinWith([b \in DOMAIN blocks |->
                 BlockMarkdown(blocks[b].type,
                               ApplyRanges(blocks[b].text,
                                           SortByKey(AllRanges(blocks[b]), DescendingOffset)))],
             "\n\n")

(***************************************************************************)
(* SpecMarkdown: parseMarkdownLine over lines written as a block prefix    *)
(* and up to five pieces, plain words and markup spans in turn, so that    *)
(* what each span of a line is, is not in doubt.                           *)
(***************************************************************************)
MaxPieces == 5

PlainPieces == {[kind |-> "PLAIN", inner |-> str] : str \in {"Some ", " and ", " text."}}

SpanPieces ==
    {[kind |-> "BOLD", inner |-> "bold"], [kind |-> "ITALIC", inner |-> "italic"],
     [kind |-> "CODE", inner |-> "code"], [kind |-> "LINK", inner |-> "link"]}

LinePrefixes == {"", "# ", "- ", "1. "}

\* What follows the first line of a document: nothing, a blank line and a
\* quotation, a fenced code block.
MarkdownRests ==
    {"", "\n\n> Some *italic* text.", "\n" \o Fence \o "\ncode\n" \o Fence}

\* The plain and span pieces in turn.
MarkdownPieces ==
    {pieces \in UNION {[1..n -> PlainPieces \cup SpanPieces] : n \in 1..MaxPieces} :
        \A i \in 1..(Len(pieces) - 1) :
            (pieces[i].kind = "PLAIN") # (pieces[i + 1].kind = "PLAIN")}

\* A piece as Markdown writes it.
PieceMarkdown(piece) ==
    IF piece.kind = "BOLD" THEN "**" \o piece.inner \o "**"
    ELSE IF piece.kind = "ITALIC" THEN "*" \o piece.inner \o "*"
    ELSE IF piece.kind = "CODE" THEN Backtick \o piece.inner \o Backtick
    ELSE IF piece.kind = "LINK" THEN "[" \o piece.inner \o "](url)"
    ELSE piece.inner

RECURSIVE LineOf(_)
LineOf(pieces) ==
    IF pieces = <<>> THEN "" ELSE PieceMarkdown(Head(pieces)) \o LineOf(Tail(pieces))

\* The line without the delimiters of its spans.
RECURSIVE PlainTextOf(_)
PlainTextOf(pieces) ==
    IF pieces = <<>> THEN "" ELSE Head(pieces).inner \o PlainTextOf(Tail(pieces))

InitMarkdown ==
    /\ notes = <<>>
    /\ selectedNoteId = Null
    /\ db = {}
    /\ \E prefix \in LinePrefixes, pieces \in MarkdownPieces, rest \in MarkdownRests :
          lastOp = [op |-> "markdown", prefix |-> prefix, pieces |-> pieces,
                    line |-> prefix \o LineOf(pieces), rest |-> rest]
    /\ lastResult = Void
    /\ rcIn = <<>>
    /\ rcOut = <<>>
    /\ rcAgain = <<>>
    /\ rcPc = 0
    /\ InitApp

\* The first line of the document parsed.
FromMarkdown ==
    /\ lastOp.op = "markdown"
    /\ lastOp' = [op |-> "fromMarkdown", prefix |-> lastOp.prefix, pieces |-> lastOp.pieces,
                  line |-> lastOp.line, rest |-> lastOp.rest,
                  block |-> parseMarkdownLine(lastOp.line)]
    /\ UNCHANGED <<notes, selectedNoteId, db, lastResult, rcVars, appVars>>

\* toMarkdown(fromMarkdown(md))
Rendered(md) == rawContentToMarkdown(markdownToRawContent(md))

\* What a round trip leaves: the Markdown written once and written again.
Trips(op, once) ==
    [op |-> "roundTrip", prefix |-> op.prefix, pieces |-> op.pieces, line |-> op.line,
     rest |-> op.rest, md |-> op.line \o op.rest, once |-> once, twice |-> Rendered(once)]

\* The document parsed and written, and the result parsed and written again.
RoundTrip ==
    /\ lastOp.op = "markdown"
    /\ lastOp' = Trips(lastOp, Rendered(lastOp.line \o lastOp.rest))
    /\ UNCHANGED <<notes, selectedNoteId, db, lastResult, rcVars, appVars>>

NextMarkdown == FromMarkdown \/ RoundTrip

SpecMarkdown == InitMarkdown /\ [][NextMarkdown]_vars

\* The part of the block's text a recorded range selects.
Selected(block, range) == Slice(block.text, range.offset, range.offset + range.length)

\* C30: for every line parsed, lines with several bold, italic, code and
\* link spans included, each recorded style or entity range selects in the
\* block's final text exactly the inner text of the span that produced it,
\* and the final text is the line without the delimiters of its spans.
C30_RangesSelectInnerText ==
    lastOp.op = "fromMarkdown" =>
        /\ lastOp.block.text = PlainTextOf(lastOp.pieces)
        /\ \A k \in DOMAIN lastOp.block.ranges :
              Selected(lastOp.block, lastOp.block.ranges[k]) = lastOp.block.ranges[k].inner

\* C31: the Markdown written for a parsed document is a fixed point:
\* parsing it and writing it again gives the same Markdown.
C31_RoundTrip ==
    lastOp.op = "roundTrip" => lastOp.twice = lastOp.once

\* C33: every range of a block produced by fromMarkdown lies within the
\* block's final text: offset >= 0 and offset + length <= the length of the
\* text, on lines that combine a link with bold, italic or code spans too.
C33_RangesWithinText ==
    lastOp.op = "fromMarkdown" =>
        \A k \in DOMAIN lastOp.block.ranges :
            /\ lastOp.block.ranges[k].offset >= 0
            /\ lastOp.block.ranges[k].offset + lastOp.block.ranges[k].length
                  <= Len(lastOp.block.text)

(***************************************************************************)
(* isMarkdown (src/src/utils/markdown.ts 351-375).                         *)
(***************************************************************************)
\* /^#{1,6}\s/
HeaderPattern(line) ==
    \E n \in 1..6 : /\ \A k \in 0..(n - 1) : CharAt(line, k) = "#"
                    /\ CharAt(line, n) = " "

\* /^d.*d/ for a delimiter d: the patterns of bold, italic and inline code.
DelimitedPattern(line, delimiter) ==
    /\ StartsWith(line, delimiter)
    /\ \E i \in Len(delimiter)..(Len(line) - Len(delimiter)) :
          Slice(line, i, i + Len(delimiter)) = delimiter

\* /^\[.*\]\(.*\)/
LinkPattern(line) ==
    /\ CharAt(line, 0) = "["
    /\ \E i \in 1..(Len(line) - 1) :
          /\ CharAt(line, i) = "]"
          /\ CharAt(line, i + 1) = "("
          /\ \E j \in (i + 2)..(Len(line) - 1) : CharAt(line, j) = ")"

\* markdownPatterns.some(pattern => pattern.test(line)), in the order of the
\* patterns: headers, bold, italic, inline code, code blocks, links,
\* blockquotes, unordered lists, ordered lists.
SomePattern(line) ==
    \/ HeaderPattern(line)
    \/ DelimitedPattern(line, "**")
    \/ DelimitedPattern(line, "*")
    \/ DelimitedPattern(line, Backtick)
    \/ StartsWith(line, Fence)
    \/ LinkPattern(line)
    \/ StartsWith(line, "> ")
    \/ (CharAt(line, 0) \in {"-", "*", "+"} /\ CharAt(line, 1) = " ")
    \/ OrderedPrefix(line) > 0

\* markdownLineCount after the loop over the lines.
MarkdownLineCount(lines) == Cardinality({i \in DOMAIN lines : SomePattern(Trim(lines[i]))})

\* The lines that are not empty.
NonEmptyLines(lines) == {i \in DOMAIN lines : lines[i] # ""}

\* markdownLineCount taken against the lines that are not empty.
IsMarkdownOf_NonEmpty(lines) == 5 * MarkdownLineCount(lines) > Cardinality(NonEmptyLines(lines))

\* markdownLineCount / lines.length > 0.2: both are whole numbers below
\* 2^53, so the quotient exceeds 0.2 exactly when five times the count
\* exceeds the number of lines.
IsMarkdownOf(lines) == 5 * MarkdownLineCount(lines) > Len(lines)

isMarkdown(content) == IsMarkdownOf(SplitLines(content))

(***************************************************************************)
(* SpecIsMarkdown: isMarkdown over texts of up to six lines, a first line  *)
(* of any kind and then empty lines, plain lines and headers.  Each line   *)
(* is written down with whether it is Markdown.                            *)
(***************************************************************************)
MaxLines == 6

MarkdownLines ==
    {[text |-> str, markdown |-> TRUE] :
        str \in {"# Head", "###### Head", "**bold** words", "*italic* words",
                 Backtick \o "code" \o Backtick, Fence, "[link](url)", "> quoted",
                 "- item", "  + item  ", "12. item"}}

PlainLines ==
    {[text |-> str, markdown |-> FALSE] :
        str \in {"", "plain words", "#Head", "####### Head", "words **bold**", "-item",
                 "[link] (url)", "1.item"}}

FollowingLines ==
    {[text |-> "", markdown |-> FALSE], [text |-> "plain words", markdown |-> FALSE],
     [text |-> "# Head", markdown |-> TRUE]}

MarkdownTexts ==
    {<<first>> \o following :
        first \in MarkdownLines \cup PlainLines,
        following \in UNION {[1..n -> FollowingLines] : n \in 0..(MaxLines - 1)}}

InitIsMarkdown ==
    /\ notes = <<>>
    /\ selectedNoteId = Null
    /\ db = {}
    /\ \E lines \in MarkdownTexts :
          lastOp = [op |-> "text", lines |-> lines,
                    content |-> JoinWith([i \in DOMAIN lines |-> lines[i].text], "\n")]
    /\ lastResult = Void
    /\ rcIn = <<>>
    /\ rcOut = <<>>
    /\ rcAgain = <<>>
    /\ rcPc = 0
    /\ InitApp

IsMarkdown ==
    /\ lastOp.op = "text"
    /\ lastOp' = [op |-> "isMarkdown", lines |-> lastOp.lines, content |-> lastOp.content,
                  result |-> isMarkdown(lastOp.content)]
    /\ UNCHANGED <<notes, selectedNoteId, db, lastResult, rcVars, appVars>>

NextIsMarkdown == IsMarkdown

SpecIsMarkdown == InitIsMarkdown /\ [][NextIsMarkdown]_vars

\* The lines of a text written down as Markdown.
MarkdownCount(lines) == Cardinality({i \in DOMAIN lines : lines[i].markdown})

\* The lines of a text that are not empty.
NonEmptyCount(lines) == Cardinality({i \in DOMAIN lines : lines[i].text # ""})

\* C32 as stated: isMarkdown returns true exactly when the lines matching a
\* Markdown pattern are more than 20% of the lines that are not empty.
C32_Original ==
    lastOp.op = "isMarkdown" =>
        (lastOp.result <=> 5 * MarkdownCount(lastOp.lines) > NonEmptyCount(lastOp.lines))

\* C32: isMarkdown returns true exactly when the lines matching a Markdown
\* pattern are more than 20% of all the lines of the text, the empty ones
\* counted.
C32_MoreThanFifthOfAllLines ==
    lastOp.op = "isMarkdown" =>
        (lastOp.result <=> 5 * MarkdownCount(lastOp.lines) > Len(lastOp.lines))

\* A text whose Markdown lines are more than a fifth of its non-empty lines
\* and not of all its lines, found not to be Markdown.
C32_Witness ==
    /\ lastOp.op = "isMarkdown"
    /\ 5 * MarkdownCount(lastOp.lines) > NonEmptyCount(lastOp.lines)
    /\ 5 * MarkdownCount(lastOp.lines) <= Len(lastOp.lines)
    /\ MarkdownCount(lastOp.lines) > 0
    /\ ~lastOp.result

(***************************************************************************)
(* More properties of the store's moveNote and deleteNote (SpecTree).      *)
(***************************************************************************)
\* The places in the collection of the children of a parent.
Bucket(coll, parentId) == {i \in DOMAIN coll : normalizeParent(coll[i].parentId) = parentId}

\* The order values of a parent's children are exactly 0..n-1.
ExactOrders(coll, parentId) ==
    /\ {coll[i].order : i \in Bucket(coll, parentId)}
          = 0..(Cardinality(Bucket(coll, parentId)) - 1)
    /\ \A i, j \in Bucket(coll, parentId) : coll[i].order = coll[j].order => i = j

\* The parent of a note of the collection, null for a root.
ParentIn(coll, id) == normalizeParent(FindNote(coll, id).parentId)

\* C34: after an accepted store moveNote the order values of the source
\* parent's remaining children and those of the destination parent's
\* children, the moved note among them, are each exactly 0..n-1, whatever
\* the order values of the two lists were before the move.
C34_MoveRenumbers ==
    \A id \in MoveIds : \A targetParentId \in MoveParents :
       \A targetIndex \in MoveIndexes : \A now \in Times :
          ~MustRefuse(notes, id, targetParentId) =>
              /\ ExactOrders(moveNote(notes, id, targetParentId, targetIndex, now),
                             ParentIn(notes, id))
              /\ ExactOrders(moveNote(notes, id, targetParentId, targetIndex, now),
                             targetParentId)

\* A collection in which a move to another parent is accepted while the
\* order values of the source list and of the destination list are both
\* other than 0..n-1, and the move leaves the source list with a note.
C34_Witness ==
    \E id \in MoveIds : \E targetParentId \in MoveParents :
       /\ ~MustRefuse(notes, id, targetParentId)
       /\ ParentIn(notes, id) # targetParentId
       /\ ~ExactOrders(notes, ParentIn(notes, id))
       /\ ~ExactOrders(notes, targetParentId)
       /\ Bucket(notes, ParentIn(notes, id)) # {FindIndex(notes, id)}
       /\ ~ExactOrders(RemoveAt(notes, FindIndex(notes, id)), ParentIn(notes, id))
       /\ moveNote(notes, id, targetParentId, 0, MaxTime) # notes

\* C36: after store deleteNote(id) every remaining note's parentId is
\* unset or the id of a note still in the store: the children of the
\* deleted note are kept and are not left pointing at the removed id.
C36_DeleteReparents ==
    lastOp.op = "deleteNote" =>
        \A i \in DOMAIN notes :
            Truthy(notes[i].parentId) => notes[i].parentId \in NoteIds(notes)

(***************************************************************************)
(* SpecMove: the store's moveNote on an imported collection of three notes *)
(* that link to each other, two of them with titles that compare equal.    *)
(***************************************************************************)
MovedTitles == {<<"Foo", "foo", "Bar">>}

MovedContents ==
    [1..MaxTreeNotes -> {PlainDoc(TRUE), OneLinkDoc(IdPool[1], "Foo"), OneLinkDoc(IdPool[3], "Bar")}]

InitMove ==
    /\ \E titles \in MovedTitles, contents \in MovedContents :
          notes = setNotes([i \in 1..MaxTreeNotes |->
                      ImportedNote(IdPool[i], titles[i], contents[i], <<<<>>, <<>>>>)])
    /\ selectedNoteId = Null
    /\ db = {}
    /\ lastOp = Idle
    /\ lastResult = Void
    /\ rcIn = <<>>
    /\ rcOut = <<>>
    /\ rcAgain = <<>>
    /\ rcPc = 0
    /\ InitApp

NextMove ==
    \E id \in MoveIds : \E targetParentId \in MoveParents :
       \E targetIndex \in MoveIndexes : \E now \in Times :
          MoveNote(id, targetParentId, targetIndex, now)

SpecMove == InitMove /\ [][NextMove]_vars

\* What an accepted move of id leaves alone: the ids, the parentId and the
\* updatedAt of the other notes, the order of the notes outside the source
\* and the destination lists.
MoveFrame(before, after, id, targetParentId) ==
    /\ Len(after) = Len(before)
    /\ NoteIds(after) = NoteIds(before)
    /\ \A n \in NoteIds(before) \ {id} :
          /\ FindNote(after, n).parentId = FindNote(before, n).parentId
          /\ FindNote(after, n).updatedAt = FindNote(before, n).updatedAt
    /\ \A n \in NoteIds(before) :
          FindNote(after, n).order # FindNote(before, n).order
             => ParentIn(before, n) \in {ParentIn(before, id), targetParentId}

\* Title, content and link arrays of every note as they were.
LinksKept(before, after) ==
    \A n \in NoteIds(before) :
       /\ FindNote(after, n).title = FindNote(before, n).title
       /\ FindNote(after, n).content = FindNote(before, n).content
       /\ FindNote(after, n).links = FindNote(before, n).links

\* Title and content of every note as they were, and the same ids in its
\* outbound and inbound links.
LinkSetsKept(before, after) ==
    \A n \in NoteIds(before) :
       /\ FindNote(after, n).title = FindNote(before, n).title
       /\ FindNote(after, n).content = FindNote(before, n).content
       /\ Outbound(FindNote(after, n)) = Outbound(FindNote(before, n))
       /\ Inbound(FindNote(after, n)) = Inbound(FindNote(before, n))
       /\ Len(FindNote(after, n).links.outbound) = Len(FindNote(before, n).links.outbound)
       /\ Len(FindNote(after, n).links.inbound) = Len(FindNote(before, n).links.inbound)

MoveKeepsAll(before, after, id, targetParentId, reconciled) ==
    /\ MoveFrame(before, after, id, targetParentId)
    /\ reconciled => LinksKept(before, after)

MoveKeeps(before, after, id, targetParentId, reconciled) ==
    /\ MoveFrame(before, after, id, targetParentId)
    /\ reconciled => LinkSetsKept(before, after)

\* C35 as stated: an accepted store moveNote keeps the set of note ids,
\* changes parentId and updatedAt only for the moved note and order only in
\* the source and destination lists, and on a reconciled collection leaves
\* every note's title, content and links unchanged.
C35_Original ==
    \A id \in MoveIds : \A targetParentId \in MoveParents :
       \A targetIndex \in MoveIndexes : \A now \in Times :
          ~MustRefuse(notes, id, targetParentId) =>
              MoveKeepsAll(notes, moveNote(notes, id, targetParentId, targetIndex, now),
                           id, targetParentId, reconcileNoteLinks(notes) = notes)

\* C35: an accepted store moveNote keeps the set of note ids, changes
\* parentId and updatedAt only for the moved note and order only in the
\* source and destination lists, and on a reconciled collection leaves
\* every note's title and content unchanged and the same ids in its
\* outbound and inbound links.
C35_MoveFrame ==
    \A id \in MoveIds : \A targetParentId \in MoveParents :
       \A targetIndex \in MoveIndexes : \A now \in Times :
          ~MustRefuse(notes, id, targetParentId) =>
              MoveKeeps(notes, moveNote(notes, id, targetParentId, targetIndex, now),
                        id, targetParentId, reconcileNoteLinks(notes) = notes)

\* After a move, a reconciled collection in which a note has two inbound
\* links from notes whose titles compare equal, and another accepted move
\* changes the place of a note in the array.
C35_Witness ==
    /\ lastOp = Op("moveNote", Null)
    /\ reconcileNoteLinks(notes) = notes
    /\ \E i \in DOMAIN notes : Len(notes[i].links.inbound) = 2
    /\ \E id \in MoveIds : \E targetParentId \in MoveParents :
          /\ ~MustRefuse(notes, id, targetParentId)
          /\ ParentIn(notes, id) # targetParentId
          /\ FindIndex(moveNote(notes, id, targetParentId, 0, MaxTime), id) # FindIndex(notes, id)

\* The sourceId values of the entries getBacklinks returned.
BacklinkSources(entries) == {entries[k].sourceId : k \in DOMAIN entries}

\* C37: on a reconciled collection, for every note t of it, the sourceId
\* values that getBacklinks(t.id, notes) returns are the ids in
\* t.links.inbound.
C37_BacklinksAreInbound ==
    (/\ lastOp.op = "getBacklinks"
     /\ lastOp.id \in NoteIds(notes)
     /\ reconcileNoteLinks(notes) = notes)
    => BacklinkSources(lastOp.entries) = Inbound(FindNote(notes, lastOp.id))

(***************************************************************************)
(* More properties of the autosave (SpecAutosave).                         *)
(***************************************************************************)
\* The store's note has the draft's title and the draft's content as the
\* store keeps it: writing the draft once more would change neither.
HoldsDraft(coll, draft) ==
    /\ getNoteById(coll, draft.id).title = draft.title
    /\ getNoteById(updateNote(coll, draft.id,
                              [title |-> draft.title, content |-> draft.content], MaxTime),
                   draft.id).content
          = getNoteById(coll, draft.id).content

\* The steps of the autosave: the edits, the timer callback, the commits
\* and the flushes.
AutosaveOps ==
    {"mount", "render", "handleTitleChange", "handleContentChange", "timer",
     "flushAllUnsaved", "unmount"}

\* C38: an unsavedChanges entry of a note that is still in the store is
\* removed by the autosave (timer callback, flushAutosave, scheduleAutosave)
\* only when the store's note then has the draft's title and the draft's
\* content, the content up to the reconciliation of its links: no path
\* drops a draft that differs from the stored note.
C38_DraftDroppedOnlyWhenStored ==
    [][\A id \in AutosaveIds :
          (/\ lastOp'.op \in AutosaveOps
           /\ HasDraft(unsavedChanges, id)
           /\ ~HasDraft(unsavedChanges', id)
           /\ id \in NoteIds(notes'))
          => HoldsDraft(notes', DraftOf(unsavedChanges, id))]_vars

\* The timer callback and a flush have each written a draft with a link and
\* removed it, the store holding the draft's title and its content with the
\* link text rewritten.
C38_Witness ==
    /\ lastOp.op \in {"timer", "flushAllUnsaved"}
    /\ unsavedChanges = <<>>
    /\ \E save \in lastOp.returned :
          /\ save.title = "Renamed"
          /\ save.content = OneLinkDoc(IdPool[2], "Foo")
          /\ getNoteById(notes, save.id).content # save.content
          /\ HoldsDraft(notes, save)

\* The debounce timer of the selected note is pending.
TimerPendingFor(id) ==
    /\ autosaveTimerRef # NoTimer
    /\ autosaveTimerRef.noteId = id
    /\ autosaveTimerRef \in timeouts

\* C39: in every state reached through the App's events (its mount, the
\* edits, the selection and deletion of notes, the timer, the flushes):
\* when saveStatus is 'saved' and a note is selected, unsavedChanges has no
\* entry for the selected note; when saveStatus is 'saving', unsavedChanges
\* has an entry for the selected note and a debounce timer is pending for it.
C39_StatusMatchesDrafts ==
    lastOp # Idle =>
        /\ (saveStatus = "saved" /\ SelectedId(notes, selectedNoteId) # Null)
              => ~HasDraft(unsavedChanges, SelectedId(notes, selectedNoteId))
        /\ saveStatus = "saving"
              => /\ SelectedId(notes, selectedNoteId) # Null
                 /\ HasDraft(unsavedChanges, SelectedId(notes, selectedNoteId))
                 /\ TimerPendingFor(SelectedId(notes, selectedNoteId))

\* An edit of the selected note, made after an earlier edit of it was saved,
\* has left the status 'saving' with the draft recorded and the timer armed.
C39_Witness ==
    /\ lastOp.op \in {"handleTitleChange", "handleContentChange"}
    /\ saveStatus = "saving"
    /\ getNoteById(notes, selectedNoteId) # NoNote
    /\ getNoteById(notes, selectedNoteId).title = "Renamed"
    /\ HasDraft(unsavedChanges, selectedNoteId)
    /\ DraftOf(unsavedChanges, selectedNoteId).title = "Untitled Note"
    /\ TimerPendingFor(selectedNoteId)

(***************************************************************************)
(* SpecAutosaveFair: the App of SpecAutosave at one clock reading, each    *)
(* callback's saves all returning or all throwing.  Its fairness is the    *)
(* window's: a timeout of setTimeout(..., 2000) does not stay pending for  *)
(* ever, it comes due and its callback runs unless clearTimeout removes it *)
(* first.                                                                  *)
(***************************************************************************)
FairOutcomeSeqs == {[k \in 1..MaxSaves |-> outcome] : outcome \in SaveOutcomes}

TimerComesDue == \E outcomes \in FairOutcomeSeqs : TimerFires(MaxTime, outcomes)

NextAutosaveFair ==
    \/ Mount(MaxTime)
    \/ \E outcomes \in FairOutcomeSeqs : Render(MaxTime, outcomes)
    \/ \E value \in AutosaveTitles : EditTitle(value)
    \/ \E content \in AutosaveContents : EditContent(content)
    \/ \E id \in AutosaveIds : ClickNote(id)
    \/ \E id \in AutosaveIds : RemoveNote(id)
    \/ TimerComesDue
    \/ \E outcomes \in FairOutcomeSeqs : PageHidden(MaxTime, outcomes)
    \/ \E outcomes \in FairOutcomeSeqs : Unmount(MaxTime, outcomes)

\* A pending timeout leaves the window's timers: TimerComesDue has run its
\* callback, or a clearTimeout of cancelAutosaveTimer has removed it.
TimerElapses == \E timeout \in timeouts : timeouts' = timeouts \ {timeout}

SpecAutosaveFair ==
    InitAutosave /\ [][NextAutosaveFair]_vars /\ WF_timeouts(TimerElapses)

\* The status shows 'saving' after an edit of the selected note.
SavingAfterEdit ==
    /\ lastOp.op \in {"handleTitleChange", "handleContentChange"}
    /\ saveStatus = "saving"

\* 'saved', the store's note holding the last edit and no draft left for it.
SavedLastEdit ==
    /\ saveStatus = "saved"
    /\ SelectedId(notes, selectedNoteId) # Null
    /\ ~HasDraft(unsavedChanges, selectedNoteId)
    /\ HasDraft(latestEdit, selectedNoteId)
    /\ HoldsDraft(notes, DraftOf(latestEdit, selectedNoteId))

\* 'error', the last edit kept in unsavedChanges.
FailedLastEdit ==
    /\ saveStatus = "error"
    /\ SelectedId(notes, selectedNoteId) # Null
    /\ HasDraft(unsavedChanges, selectedNoteId)
    /\ DraftOf(unsavedChanges, selectedNoteId) = DraftOf(latestEdit, selectedNoteId)

\* C40: with the debounce timer fair, after an edit of the selected note the
\* autosave eventually leaves 'saving': the status becomes 'saved' with the
\* store's note holding the last edit and no unsavedChanges entry for it, or
\* 'error' with the last edit kept in unsavedChanges.
C40_EventuallyLeavesSaving ==
    SavingAfterEdit ~> (SavedLastEdit \/ FailedLastEdit)

\* The timer callback has saved the last edit of the selected note.
C40_Witness ==
    /\ lastOp.op = "timer"
    /\ lastOp.returned # {}
    /\ SavedLastEdit
    /\ DraftOf(latestEdit, selectedNoteId) \in lastOp.returned

====
